---- MODULE Spec2Model ----
(***************************************************************************)
(* A model of the registro identifier core: the settings object            *)
(* (registro/config/settings.py), the component validators, the locator    *)
(* generator and the RID class (registro/models/rid.py, patterns.py), and  *)
(* the global type registry (registro/core/global_registry.py).            *)
(*                                                                         *)
(* Python strings are sequences of one-character strings, so that split,   *)
(* join, lower() and regular-expression matching are computed character by *)
(* character.  A regular expression is its source text; RegexOf gives the  *)
(* language of each pattern text the model uses.                           *)
(***************************************************************************)
EXTENDS Integers, Sequences, FiniteSets, TLC

VARIABLES
    RID_PREFIX,               \* settings.RID_PREFIX
    DEFAULT_SERVICE,          \* settings.DEFAULT_SERVICE
    DEFAULT_INSTANCE,         \* settings.DEFAULT_INSTANCE
    patterns,                 \* settings._pattern_<name> attributes
    compiled_patterns_cache,  \* settings._compiled_patterns_cache
    reserved_words,           \* settings._reserved_words
    clock,                    \* the millisecond clock read by ulid.new()
    last_ulid,                \* _thread_local.last_ulid, one slot per thread
    issued,                   \* per thread, the strings generate_ulid returned
    types,                    \* GlobalRegistry._types
    log,                      \* the registry calls made so far, with outcomes
    pc,                       \* per thread, the position inside register()
    frame,                    \* per thread, the locals of a running register()
    types0,                   \* GlobalRegistry._types when the threads started
    call,                     \* the last RID operation called, with arguments
    ret,                      \* what that operation returned or raised
    resource,                 \* the fields of a Resource object, once constructed
    created,                  \* those fields as its construction left them
    lock,                     \* MetricsCollector._lock: its owner, or free
    counters,                 \* MetricsCollector._counters
    mpc,                      \* per thread, the position inside increment()
    mframe,                   \* per thread, the locals of a running increment()
    requested,                \* per counter key, the sum of the increments called
    held                      \* the set objects a caller of RESERVED_WORDS holds

vars == <<RID_PREFIX, DEFAULT_SERVICE, DEFAULT_INSTANCE, patterns,
          compiled_patterns_cache, reserved_words, clock, last_ulid, issued,
          types, log, pc, frame, types0, call, ret, resource, created,
          lock, counters, mpc, mframe, requested, held>>

settingsVars == <<RID_PREFIX, DEFAULT_SERVICE, DEFAULT_INSTANCE, patterns,
                  reserved_words>>
ulidVars == <<clock, last_ulid, issued>>
registryVars == <<types, log, pc, frame, types0>>
ridVars == <<compiled_patterns_cache, call, ret>>
resourceVars == <<resource, created>>
metricsVars == <<lock, counters, mpc, mframe, requested>>
objectVars == <<resourceVars, metricsVars, held>>

----------------------------------------------------------------------------
(* Bounds of the model *)

MaxTime == 1      \* the clock runs over 0..MaxTime
MaxRand == 1      \* the random part of a ULID runs over 0..MaxRand
MaxIssued == 3    \* generate_ulid calls recorded per thread
MaxOps == 3       \* registry calls recorded in the log
MaxRequested == 3 \* the increments called of a collector sum to at most this
MaxHeld == 2      \* set objects a caller of RESERVED_WORDS holds

Threads == {"t1", "t2"}
MainThread == "t1"

----------------------------------------------------------------------------
(* Characters and strings *)

LowerSeq == <<"a","b","c","d","e","f","g","h","i","j","k","l","m",
              "n","o","p","q","r","s","t","u","v","w","x","y","z">>
UpperSeq == <<"A","B","C","D","E","F","G","H","I","J","K","L","M",
              "N","O","P","Q","R","S","T","U","V","W","X","Y","Z">>
DigitSeq == <<"0","1","2","3","4","5","6","7","8","9">>

SeqRange(s) == {s[i] : i \in 1..Len(s)}

LowerChars == SeqRange(LowerSeq)
UpperChars == SeqRange(UpperSeq)
DigitChars == SeqRange(DigitSeq)

\* The Crockford base32 alphabet of a ULID, in encoding order (which is also
\* the ASCII order of its characters).
CrockfordSeq == <<"0","1","2","3","4","5","6","7","8","9",
                  "A","B","C","D","E","F","G","H","J","K","M","N",
                  "P","Q","R","S","T","V","W","X","Y","Z">>
CrockfordChars == SeqRange(CrockfordSeq)

\* str.lower() on one character and on a string.
LowerChar(c) ==
    IF c \in UpperChars
    THEN LowerSeq[CHOOSE i \in 1..Len(UpperSeq) : UpperSeq[i] = c]
    ELSE c
Lower(s) == [i \in 1..Len(s) |-> LowerChar(s[i])]

\* str.split('.'): the maximal dot-free pieces, empty pieces included.
RECURSIVE SplitFrom(_, _, _)
SplitFrom(s, i, cur) ==
    IF i > Len(s) THEN <<cur>>
    ELSE IF s[i] = "." THEN <<cur>> \o SplitFrom(s, i + 1, <<>>)
    ELSE SplitFrom(s, i + 1, Append(cur, s[i]))
Split(s) == SplitFrom(s, 1, <<>>)

\* '.'.join(parts), which is what the f-string of RID.generate builds.
RECURSIVE Join(_)
Join(parts) ==
    IF Len(parts) = 0 THEN <<>>
    ELSE IF Len(parts) = 1 THEN parts[1]
    ELSE parts[1] \o <<".">> \o Join(Tail(parts))

Repeat(c, n) == [i \in 1..n |-> c]

----------------------------------------------------------------------------
(* Regular expressions *)

\* The pattern texts of Settings.__init__ (settings.py lines 45-53).
PAT_RID_PREFIX == "^[a-z][a-z0-9-]{0,9}$"
PAT_SERVICE == "^[a-z][a-z-]{0,49}$"
PAT_INSTANCE == "^[a-z0-9][a-z0-9-]{0,49}$"
PAT_TYPE == "^[a-z][a-z-]{0,49}$"
PAT_LOCATOR == "^[0-9A-HJ-KM-NPQRSTVWXYZ]{26}$"
PAT_API_OBJECT == "^(?=.{1,100}$)[A-Z][A-Za-z0-9]*$"
PAT_API_LINK == "^(?=.{1,100}$)[a-z][A-Za-z0-9]*$"
PAT_API_ACTION == "^(?=.{1,100}$)[A-Za-z][A-Za-z0-9_-]*$"
PAT_API_QUERY == "^(?=.{1,100}$)[a-z][A-Za-z0-9]*$"

\* Pattern texts handed to set_pattern: the type pattern of patterns.py
\* (line 67), a text re.compile rejects, and the empty text.
PAT_TYPE_STRICT == "^[a-z][a-z-]{1,49}$"
PAT_BROKEN == "["
PAT_EMPTY == ""

\* The language of a pattern text: one character of `first`, then between lo
\* and hi characters of `rest`.  [X]{26} is one X then 25 more.
RegexOf(ps) ==
    CASE ps = PAT_RID_PREFIX ->
           [first |-> LowerChars, rest |-> LowerChars \cup DigitChars \cup {"-"},
            lo |-> 0, hi |-> 9]
      [] ps = PAT_SERVICE ->
           [first |-> LowerChars, rest |-> LowerChars \cup {"-"},
            lo |-> 0, hi |-> 49]
      [] ps = PAT_TYPE_STRICT ->
           [first |-> LowerChars, rest |-> LowerChars \cup {"-"},
            lo |-> 1, hi |-> 49]
      [] ps = PAT_INSTANCE ->
           [first |-> LowerChars \cup DigitChars,
            rest |-> LowerChars \cup DigitChars \cup {"-"}, lo |-> 0, hi |-> 49]
      [] ps = PAT_LOCATOR ->
           [first |-> CrockfordChars, rest |-> CrockfordChars,
            lo |-> 25, hi |-> 25]
      [] ps = PAT_API_OBJECT ->
           [first |-> UpperChars,
            rest |-> UpperChars \cup LowerChars \cup DigitChars,
            lo |-> 0, hi |-> 99]
      [] ps \in {PAT_API_LINK, PAT_API_QUERY} ->
           [first |-> LowerChars,
            rest |-> UpperChars \cup LowerChars \cup DigitChars,
            lo |-> 0, hi |-> 99]
      [] ps = PAT_API_ACTION ->
           [first |-> UpperChars \cup LowerChars,
            rest |-> UpperChars \cup LowerChars \cup DigitChars \cup {"_", "-"},
            lo |-> 0, hi |-> 99]

\* re.compile(ps) succeeds: on every pattern text of Settings.__init__, on
\* the type pattern of patterns.py and on the empty text; not on "[".
Compiles(ps) ==
    ps \in {PAT_RID_PREFIX, PAT_SERVICE, PAT_INSTANCE, PAT_LOCATOR,
            PAT_API_OBJECT, PAT_API_LINK, PAT_API_ACTION, PAT_API_QUERY,
            PAT_TYPE_STRICT, PAT_EMPTY}

\* The whole of s is one `first` character and lo..hi `rest` characters.
FullMatch(rx, s) ==
    /\ Len(s) >= 1
    /\ s[1] \in rx.first
    /\ \A i \in 2..Len(s) : s[i] \in rx.rest
    /\ Len(s) - 1 >= rx.lo
    /\ Len(s) - 1 <= rx.hi

\* regex.match(s) for an anchored pattern ^...$: Python's $ matches at the
\* end of the string and also just before a newline that ends the string.
RegexMatch(rx, s) ==
    \/ FullMatch(rx, s)
    \/ /\ Len(s) >= 1
       /\ s[Len(s)] = "\n"
       /\ FullMatch(rx, SubSeq(s, 1, Len(s) - 1))

\* re.compile(ps).match(s)
PatternMatch(ps, s) == RegexMatch(RegexOf(ps), s)

\* Matching a sequence of elements from position i of s up to the final $.
\* An element is a literal [lit |-> chars] or a pattern body [rx |-> regex].
RECURSIVE MatchElems(_, _, _, _)
MatchElems(elems, k, s, i) ==
    IF k > Len(elems)
    THEN \/ i = Len(s) + 1
         \/ i = Len(s) /\ s[i] = "\n"
    ELSE IF "lit" \in DOMAIN elems[k]
    THEN LET l == elems[k].lit IN
         /\ i + Len(l) - 1 <= Len(s)
         /\ SubSeq(s, i, i + Len(l) - 1) = l
         /\ MatchElems(elems, k + 1, s, i + Len(l))
    ELSE LET rx == elems[k].rx IN
         \E n \in (rx.lo + 1)..(rx.hi + 1) :
            /\ i + n - 1 <= Len(s)
            /\ s[i] \in rx.first
            /\ \A j \in (i + 1)..(i + n - 1) : s[j] \in rx.rest
            /\ MatchElems(elems, k + 1, s, i + n)

----------------------------------------------------------------------------
(* Settings (registro/config/settings.py) *)

\* The attributes _pattern_<name> that Settings.__init__ creates.
InitPatterns ==
    [rid_prefix |-> PAT_RID_PREFIX,
     service |-> PAT_SERVICE,
     instance |-> PAT_INSTANCE,
     type |-> PAT_TYPE,
     locator |-> PAT_LOCATOR,
     api_name_object_type |-> PAT_API_OBJECT,
     api_name_link_type |-> PAT_API_LINK,
     api_name_action_type |-> PAT_API_ACTION,
     api_name_query_type |-> PAT_API_QUERY]

\* The reserved words Settings.__init__ installs.
InitReservedWords ==
    { <<"n","e","w">>, <<"e","d","i","t">>, <<"d","e","l","e","t","e">>,
      <<"l","i","s","t">>, <<"s","e","a","r","c","h">>,
      <<"c","r","e","a","t","e">>, <<"u","p","d","a","t","e">>,
      <<"r","e","m","o","v","e">>, <<"g","e","t">>, <<"s","e","t">>,
      <<"a","d","d">>, <<"c","l","e","a","r">>, <<"n","u","l","l">> }

\* name.lower() on the pattern names the program passes.
NameLower(name) ==
    CASE name = "RID" -> "rid"
      [] name = "RID_PREFIX" -> "rid_prefix"
      [] name = "SERVICE" -> "service"
      [] name = "INSTANCE" -> "instance"
      [] name = "TYPE" -> "type"
      [] name = "LOCATOR" -> "locator"
      [] OTHER -> name

\* name.upper() on the pattern names the program passes.
NameUpper(name) ==
    CASE name = "rid" -> "RID"
      [] name = "service" -> "SERVICE"
      [] name = "instance" -> "INSTANCE"
      [] name = "type" -> "TYPE"
      [] name = "locator" -> "LOCATOR"
      [] OTHER -> name

\* pattern_mapping of get_pattern_string.
PatternMapping ==
    ("RID_PREFIX" :> "rid_prefix") @@
    ("SERVICE" :> "service") @@
    ("INSTANCE" :> "instance") @@
    ("TYPE" :> "type") @@
    ("LOCATOR" :> "locator") @@
    ("API_NAME_OBJECT_TYPE" :> "api_name_object_type") @@
    ("API_NAME_LINK_TYPE" :> "api_name_link_type") @@
    ("API_NAME_ACTION_TYPE" :> "api_name_action_type") @@
    ("API_NAME_QUERY_TYPE" :> "api_name_query_type")

\* Settings.get_pattern_string: the attribute if there is one, else None
\* (found = FALSE).
get_pattern_string(name) ==
    LET mapped_name == IF name \in DOMAIN PatternMapping
                       THEN PatternMapping[name]
                       ELSE NameLower(name)
    IN IF mapped_name \in DOMAIN patterns
       THEN [found |-> TRUE, str |-> patterns[mapped_name]]
       ELSE [found |-> FALSE, str |-> ""]

\* Settings.get_compiled_pattern on cache c, after the cache lookup missed:
\* compile the pattern text ps, if there is one, and cache it.
compile_and_cache(c, name, ps) ==
    IF ps.found /\ ps.str # "" /\ Compiles(ps.str)
    THEN [found |-> TRUE, pattern |-> ps.str, cache |-> (name :> ps.str) @@ c]
    ELSE [found |-> FALSE, pattern |-> "", cache |-> c]

\* Settings.get_compiled_pattern on cache c: the compiled pattern (None is
\* found = FALSE) and the cache afterwards.  A compiled pattern is known by
\* the text it was compiled from.
get_compiled_pattern(c, name) ==
    IF name \in DOMAIN c
    THEN [found |-> TRUE, pattern |-> c[name], cache |-> c]
    ELSE compile_and_cache(c, name, get_pattern_string(name))

\* Settings.set_pattern(name, pattern_string) on the pattern attributes ps and
\* the cache c: the outcome, the attributes and the cache afterwards.
set_pattern(ps, c, name, pattern_string) ==
    IF NameLower(name) \notin DOMAIN ps
    THEN [out |-> [kind |-> "ValueError", err |-> "Unknown pattern name",
                   value |-> <<>>],
          patterns |-> ps, cache |-> c]
    ELSE IF ~Compiles(pattern_string)
    THEN [out |-> [kind |-> "ValueError", err |-> "Invalid regex pattern",
                   value |-> <<>>],
          patterns |-> ps, cache |-> c]
    ELSE [out |-> [kind |-> "ok", err |-> "", value |-> <<>>],
          patterns |-> [ps EXCEPT ![NameLower(name)] = pattern_string],
          cache |-> [n \in DOMAIN c \ {NameUpper(name)} |-> c[n]]]

\* os.getenv(env_var) gives a value that the walrus test takes: the variable
\* is set and its value is not the empty string.
env_value_taken(env, pattern_name) ==
    pattern_name \in DOMAIN env /\ env[pattern_name] # ""

\* _initialize storing every override as it comes, without _validate_pattern.
initialize_unchecked(ps, env) ==
    [out |-> [kind |-> "ok", err |-> "", value |-> <<>>],
     patterns |-> [n \in DOMAIN ps |->
                     IF env_value_taken(env, n) THEN env[n] ELSE ps[n]]]

\* Settings._initialize on the pattern attributes ps that __init__ assigned,
\* with the REGISTRO_PATTERN_<NAME> variables of env (keyed by the lower-case
\* pattern name): each value taken is validated, then stored; then every
\* attribute is validated again.  The outcome and the attributes afterwards.
initialize(ps, env) ==
    IF \E n \in DOMAIN ps : env_value_taken(env, n) /\ ~Compiles(env[n])
    THEN [out |-> [kind |-> "ValueError", err |-> "Invalid regex pattern",
                   value |-> <<>>],
          patterns |-> ps]
    ELSE IF \E n \in DOMAIN ps : ~env_value_taken(env, n) /\ ~Compiles(ps[n])
    THEN [out |-> [kind |-> "ValueError", err |-> "Invalid regex pattern",
                   value |-> <<>>],
          patterns |-> ps]
    ELSE [out |-> [kind |-> "ok", err |-> "", value |-> <<>>],
          patterns |-> [n \in DOMAIN ps |->
                          IF env_value_taken(env, n) THEN env[n] ELSE ps[n]]]

----------------------------------------------------------------------------
(* Component validators (registro/models/patterns.py, rid.py) *)

\* What an operation returns or raises.
Returned(v) == [kind |-> "ok", err |-> "", value |-> v]
Raised(kind, err) == [kind |-> kind, err |-> err, value |-> <<>>]

\* validate_string on a str value: the pattern, then the reserved words.
validate_string(value, pattern, reserved) ==
    IF ~PatternMatch(pattern, value)
    THEN Raised("ValueError", "does not match pattern")
    ELSE IF reserved # {} /\ Lower(value) \in reserved
    THEN Raised("ValueError", "is a reserved word")
    ELSE Returned(value)

\* validate_string on any value: the isinstance test, then the rest.
validate_string_any(isStr, value, pattern, reserved) ==
    IF ~isStr
    THEN Raised("TypeError", "must be a string")
    ELSE validate_string(value, pattern, reserved)

\* TypeStr.allowed_exceptions
TypeAllowedExceptions ==
    { <<"r","e","s","o","u","r","c","e">>, <<"o","b","j","e","c","t">>,
      <<"l","i","n","k">>, <<"a","c","t","i","o","n">>,
      <<"q","u","e","r","y">>,
      <<"p","r","o","p","e","r","t","y","-","t","y","p","e">>,
      <<"o","b","j","e","c","t","-","t","y","p","e">> }

\* _get_reserved_words with no exception subtracted.
get_reserved_words_base(cls) == reserved_words

\* cls._get_reserved_words() of the four validator classes.
get_reserved_words(cls) ==
    CASE cls = "ServiceStr" -> reserved_words \ {DEFAULT_SERVICE}
      [] cls = "InstanceStr" -> reserved_words \ {DEFAULT_INSTANCE}
      [] cls = "TypeStr" -> reserved_words \ TypeAllowedExceptions
      [] cls = "LocatorStr" -> reserved_words

\* cls.__name__.replace("Str", "").upper()
PatternNameOf(cls) ==
    CASE cls = "ServiceStr" -> "SERVICE"
      [] cls = "InstanceStr" -> "INSTANCE"
      [] cls = "TypeStr" -> "TYPE"
      [] cls = "LocatorStr" -> "LOCATOR"

\* ulid.parse(s) of ulid-py accepts a str of 26 base32 characters.
UlidParses(s) ==
    /\ Len(s) = 26
    /\ \A i \in 1..Len(s) : s[i] \in CrockfordChars

\* LocatorStr.validate, step 2: ulid.parse on a value that passed step 1.
\* The other classes return what validate_string returned.
validate_ulid(cls, v, base, c) ==
    IF base.kind # "ok"
    THEN [out |-> base, cache |-> c]
    ELSE IF cls = "LocatorStr" /\ ~UlidParses(v)
    THEN [out |-> Raised("ValueError", "Invalid ULID"), cache |-> c]
    ELSE [out |-> base, cache |-> c]

\* cls.validate once cls._get_pattern() has looked the pattern up.
validate_with_pattern(cls, v, got) ==
    IF ~got.found
    THEN [out |-> Raised("ValueError", "Configuration error"),
          cache |-> got.cache]
    ELSE validate_ulid(cls, v,
                       validate_string(v, got.pattern, get_reserved_words(cls)),
                       got.cache)

\* ConstrainedStr.validate / LocatorStr.validate on a str value v with cache
\* c: the outcome and the cache afterwards.
ComponentValidate(cls, v, c) ==
    validate_with_pattern(cls, v, get_compiled_pattern(c, PatternNameOf(cls)))

\* cls.validate(v, info) for a value that need not be a str: the pattern
\* lookup comes first, then validate_string with its isinstance test.
validate_any_with_pattern(cls, isStr, v, got) ==
    IF got.found /\ ~isStr
    THEN [out |-> validate_string_any(isStr, v, got.pattern,
                                      get_reserved_words(cls)),
          cache |-> got.cache]
    ELSE validate_with_pattern(cls, v, got)

ComponentValidateAny(cls, isStr, v, c) ==
    validate_any_with_pattern(cls, isStr, v,
                              get_compiled_pattern(c, PatternNameOf(cls)))

----------------------------------------------------------------------------
(* The locator generator (registro/models/rid.py, generate_ulid) *)

NoUlid == [none |-> TRUE]

\* The k-th base32 digit of n, counted from the right; the model's numbers
\* stay below 32^6.
Base32Digit(n, k) == IF k >= 6 THEN 0 ELSE (n \div (32 ^ k)) % 32

\* n in base32 without padding to `width`: one character for the model's
\* numbers below 32.
EncodeBase32_unpadded(n, width) ==
    [i \in 1..(IF n < 32 THEN 1 ELSE width) |->
        CrockfordSeq[Base32Digit(n, (IF n < 32 THEN 1 ELSE width) - i) + 1]]

\* n in `width` Crockford base32 characters, most significant first.
EncodeBase32(n, width) ==
    [i \in 1..width |-> CrockfordSeq[Base32Digit(n, width - i) + 1]]

\* str(ulid): 10 characters of timestamp, then 16 of randomness.
UlidStr(u) == EncodeBase32(u.ts, 10) \o EncodeBase32(u.rand, 16)

\* The ULID generate_ulid makes when the clock reads `now` and the random
\* source gives `r`.  With a previous value the code asks for
\* ulid.new().monotonic(); a ulid-py ULID has no such attribute, the
\* AttributeError is caught and ulid.new() is called again.  Without one it
\* calls ulid.new().  The previous value takes no part in either.
new_ulid(last, now, r) ==
    IF last # NoUlid
    THEN [ts |-> now, rand |-> r]
    ELSE [ts |-> now, rand |-> r]

\* generate_ulid() keeping its last value in one module-level variable that
\* every thread shares.
GenerateUlid_shared(t) ==
    /\ Len(issued[t]) < MaxIssued
    /\ \E r \in 0..MaxRand :
          LET u == new_ulid(last_ulid[t], clock, r) IN
          /\ last_ulid' = [x \in Threads |-> u]
          /\ issued' = [issued EXCEPT ![t] = Append(@, UlidStr(u))]
    /\ UNCHANGED <<objectVars, clock, settingsVars, registryVars, ridVars>>

\* generate_ulid() on thread t, returning to a direct caller.
GenerateUlid(t) ==
    /\ Len(issued[t]) < MaxIssued
    /\ \E r \in 0..MaxRand :
          LET u == new_ulid(last_ulid[t], clock, r) IN
          /\ last_ulid' = [last_ulid EXCEPT ![t] = u]
          /\ issued' = [issued EXCEPT ![t] = Append(@, UlidStr(u))]
    /\ UNCHANGED <<objectVars, clock, settingsVars, registryVars, ridVars>>

\* A millisecond passes.
Tick ==
    /\ clock < MaxTime
    /\ clock' = clock + 1
    /\ UNCHANGED <<objectVars, last_ulid, issued, settingsVars, registryVars, ridVars>>

----------------------------------------------------------------------------
(* The RID class (registro/models/rid.py) *)

\* get_rid_pattern(): ^prefix\.(service)\.(instance)\.(type)\.(locator)$
\* from the current pattern texts, anchors stripped.
get_rid_pattern_matches(v) ==
    LET dot == [lit |-> <<".">>] IN
    MatchElems(<< [lit |-> RID_PREFIX], dot,
                  [rx |-> RegexOf(get_pattern_string("SERVICE").str)], dot,
                  [rx |-> RegexOf(get_pattern_string("INSTANCE").str)], dot,
                  [rx |-> RegexOf(get_pattern_string("TYPE").str)], dot,
                  [rx |-> RegexOf(get_pattern_string("LOCATOR").str)] >>,
               1, v, 1)

\* RID.validate, the last statement: LocatorStr.validate was called.
validate_return(v, s4) ==
    IF s4.out.kind # "ok" THEN s4
    ELSE [out |-> Returned(v), cache |-> s4.cache]

\* RID.validate from TypeStr.validate on.
validate_type(v, parts, s3) ==
    IF s3.out.kind # "ok" THEN s3
    ELSE validate_return(v, ComponentValidate("LocatorStr", parts[5], s3.cache))

\* RID.validate from InstanceStr.validate on.
validate_instance(v, parts, s2) ==
    IF s2.out.kind # "ok" THEN s2
    ELSE validate_type(v, parts,
                       ComponentValidate("TypeStr", parts[4], s2.cache))

\* RID.validate from ServiceStr.validate on.
validate_service(v, parts, s1) ==
    IF s1.out.kind # "ok" THEN s1
    ELSE validate_instance(v, parts,
                           ComponentValidate("InstanceStr", parts[3], s1.cache))

\* RID.validate from v.split('.') on.
validate_parts(v, parts, c) ==
    IF Len(parts) # 5
    THEN [out |-> Raised("ValueError", "RID must have 5 parts"), cache |-> c]
    ELSE IF parts[1] # RID_PREFIX
    THEN [out |-> Raised("ValueError", "RID prefix must be"), cache |-> c]
    ELSE validate_service(v, parts,
                          ComponentValidate("ServiceStr", parts[2], c))

\* RID.validate from the whole-RID pattern test on.
validate_format(v, rid_pattern) ==
    IF ~rid_pattern.found \/ ~PatternMatch(rid_pattern.pattern, v)
    THEN [out |-> Raised("ValueError", "Invalid RID format"),
          cache |-> rid_pattern.cache]
    ELSE validate_parts(v, Split(v), rid_pattern.cache)

\* RID.validate(v, info) with cache c: the outcome and the cache afterwards.
RID_validate(isStr, v, c) ==
    IF ~isStr
    THEN [out |-> Raised("TypeError", "Expected string"), cache |-> c]
    ELSE validate_format(v, get_compiled_pattern(c, "RID"))

\* An optional argument: omitted (None) or a str.
Omitted == [given |-> FALSE, s |-> <<>>]
Given(s) == [given |-> TRUE, s |-> s]

\* RID.generate, the f-string that builds the rid.
generate_rid(s1, s2, s3, locator) ==
    Returned(Join(<<RID_PREFIX, s1.out.value, s2.out.value, s3.out.value,
                    locator>>))

\* RID.generate with a locator supplied: LocatorStr.validate was called.
generate_with_locator(s1, s2, s3, s4, last) ==
    IF s4.out.kind # "ok"
    THEN [out |-> s4.out, cache |-> s4.cache, last |-> last]
    ELSE [out |-> generate_rid(s1, s2, s3, s4.out.value),
          cache |-> s4.cache, last |-> last]

\* RID.generate with no locator: generate_ulid() made u.
generate_with_ulid(s1, s2, s3, u) ==
    [out |-> generate_rid(s1, s2, s3, UlidStr(u)), cache |-> s3.cache,
     last |-> u]

\* generate_type making the locator before it looks at the type's outcome.
generate_type_eager(s1, s2, s3, locator, last, now, r) ==
    IF s3.out.kind # "ok"
    THEN [out |-> s3.out, cache |-> s3.cache,
          last |-> IF locator.given THEN last ELSE new_ulid(last, now, r)]
    ELSE IF ~locator.given
    THEN generate_with_ulid(s1, s2, s3, new_ulid(last, now, r))
    ELSE generate_with_locator(s1, s2, s3,
             ComponentValidate("LocatorStr", locator.s, s3.cache), last)

\* RID.generate from TypeStr.validate on.
generate_type(s1, s2, s3, locator, last, now, r) ==
    IF s3.out.kind # "ok"
    THEN [out |-> s3.out, cache |-> s3.cache, last |-> last]
    ELSE IF ~locator.given
    THEN generate_with_ulid(s1, s2, s3, new_ulid(last, now, r))
    ELSE generate_with_locator(s1, s2, s3,
             ComponentValidate("LocatorStr", locator.s, s3.cache), last)

\* RID.generate from InstanceStr.validate on.
generate_instance(s1, s2, typ, locator, last, now, r) ==
    IF s2.out.kind # "ok"
    THEN [out |-> s2.out, cache |-> s2.cache, last |-> last]
    ELSE generate_type(s1, s2, ComponentValidate("TypeStr", typ, s2.cache),
                       locator, last, now, r)

\* RID.generate from ServiceStr.validate on.
generate_service(s1, inst, typ, locator, last, now, r) ==
    IF s1.out.kind # "ok"
    THEN [out |-> s1.out, cache |-> s1.cache, last |-> last]
    ELSE generate_instance(s1,
             ComponentValidate("InstanceStr", inst, s1.cache),
             typ, locator, last, now, r)

\* or_default with the default frozen at the value the class declares.
or_default_frozen(arg, default) ==
    IF arg.given /\ arg.s # <<>> THEN arg.s
    ELSE IF Len(default) > 4 THEN <<"d","e","f","a","u","l","t">>
    ELSE <<"p","r","o","d">>

\* `service or settings.DEFAULT_SERVICE` (and the same for instance): None
\* and the empty string both give the default.
or_default(arg, default) ==
    IF arg.given /\ arg.s # <<>> THEN arg.s ELSE default

\* RID.generate(service, instance, type_, locator) on a thread whose last
\* ULID is `last`, with cache c, clock `now` and random draw r: the outcome,
\* the cache and the thread's last ULID afterwards.  type_ defaults to
\* "resource".
RID_generate(service, instance, type_, locator, c, last, now, r) ==
    generate_service(
        ComponentValidate("ServiceStr", or_default(service, DEFAULT_SERVICE), c),
        or_default(instance, DEFAULT_INSTANCE),
        IF type_.given THEN type_.s ELSE <<"r","e","s","o","u","r","c","e">>,
        locator, last, now, r)

\* components accepting five parts or more and naming the first five.
RID_components_at_least_five(v) ==
    LET parts == Split(v) IN
    IF Len(parts) < 5
    THEN [kind |-> "ValueError", err |-> "must have 5 parts", value |-> <<>>]
    ELSE [kind |-> "ok", err |-> "",
          value |-> [prefix |-> parts[1], service |-> parts[2],
                     instance |-> parts[3], type |-> parts[4],
                     locator |-> parts[5]]]

\* RID.components(self): the five named parts, or ValueError.
RID_components(v) ==
    LET parts == Split(v) IN
    IF Len(parts) # 5
    THEN [kind |-> "ValueError", err |-> "must have 5 parts", value |-> <<>>]
    ELSE [kind |-> "ok", err |-> "",
          value |-> [prefix |-> parts[1], service |-> parts[2],
                     instance |-> parts[3], type |-> parts[4],
                     locator |-> parts[5]]]

----------------------------------------------------------------------------
(* The strings the model calls the RID operations with *)

S_ri == <<"r","i">>
S_r_i == <<"r",".","i">>
S_xx == <<"x","x">>
S_default == <<"d","e","f","a","u","l","t">>
S_Default == <<"D","e","f","a","u","l","t">>
S_prod == <<"p","r","o","d">>
S_main == <<"m","a","i","n">>
S_svc == <<"s","v","c">>
S_Svc == <<"S","v","c">>
S_new == <<"n","e","w">>
S_inst == <<"i","n","s","t">>
S_Inst == <<"I","n","s","t">>
S_t == <<"t">>
S_T == <<"T">>
S_widget == <<"w","i","d","g","e","t">>
S_resource == <<"r","e","s","o","u","r","c","e">>
S_a_b_c_d == <<"a",".","b",".","c",".","d">>
L_zeros == Repeat("0", 26)
L_short == Repeat("0", 25)
L_letterO == Repeat("O", 26)

PrefixValues == {S_ri, S_r_i}
DefaultServiceValues == {S_default, S_new, S_Default}
DefaultInstanceValues == {S_prod, S_main}

\* Whole strings handed to RID.validate and RID.components.
RidInputs ==
    { Join(<<p, sv, S_inst, S_t, L_zeros>>) :
        p \in {S_ri, S_xx}, sv \in {S_svc, S_Svc, S_new} }
    \cup { S_a_b_c_d,
           Join(<<S_ri, S_svc, S_inst, S_t, L_short>>),
           Join(<<S_ri, S_svc, S_inst, S_t, L_zeros \o <<"\n">> >>),
           Join(<<S_r_i, S_svc, S_inst, S_resource, L_zeros>>),
           <<>> }

ServiceArgs == {Omitted, Given(S_svc), Given(S_Svc)}
InstanceArgs == {Omitted, Given(S_Inst)}
TypeArgs == {Omitted, Given(S_widget), Given(S_T)}
LocatorArgs == {Omitted, Given(L_zeros), Given(L_letterO)}

\* The RID.generate calls made: those that pass at most two of the four
\* arguments.
GenerateCalls ==
    { c \in ServiceArgs \X InstanceArgs \X TypeArgs \X LocatorArgs :
        Cardinality({k \in 1..4 : c[k].given}) <= 2 }

\* More strings: a locator with letters and its lower-cased form, a service
\* followed by a newline.
L_As == Repeat("A", 26)
L_as == Repeat("a", 26)
S_svc_nl == <<"s","v","c","\n">>

\* Names and texts handed to set_pattern and get_compiled_pattern.
PatternNames == {"SERVICE", "service", "TYPE", "RID"}
PatternTexts == {PAT_SERVICE, PAT_TYPE_STRICT, PAT_BROKEN, PAT_EMPTY}

\* Sets assigned to settings.RESERVED_WORDS.
ReservedWordSets ==
    { InitReservedWords, {}, {S_default, S_main, S_resource, S_svc, L_as} }

\* Component validations made while the reserved words and defaults change.
ComponentCalls ==
    ({"ServiceStr"} \X {S_svc, S_Svc, S_new, S_default, S_main, S_svc_nl})
    \cup ({"InstanceStr"} \X {S_prod, S_main, S_new, S_default, S_Inst})
    \cup ({"TypeStr"} \X {S_t, S_T, S_widget, S_resource, S_new})
    \cup ({"LocatorStr"} \X {L_zeros, L_short, L_letterO, L_As})

\* Component validations made while the patterns change.
PatternCalls ==
    ({"ServiceStr"} \X {S_svc, S_t}) \cup ({"TypeStr"} \X {S_t, S_widget})

\* Whole strings handed to RID.validate while the patterns change.
WholeRidInputs ==
    { Join(<<S_ri, S_svc, S_inst, S_t, L_zeros>>),
      Join(<<S_ri, S_svc, S_inst, S_widget, L_zeros>>),
      Join(<<S_r_i, S_svc, S_inst, S_widget, L_zeros>>),
      Join(<<S_ri, S_svc, S_inst, S_t, L_short>>),
      S_a_b_c_d }

----------------------------------------------------------------------------
(* Operations on the settings and on RIDs *)

NoCall == [op |-> "none"]
NoRet == [kind |-> "none"]

\* settings.RID_PREFIX = p (a plain pydantic field; nothing validates it).
SetRidPrefix(p) ==
    /\ RID_PREFIX' = p
    /\ call' = NoCall
    /\ ret' = NoRet
    /\ UNCHANGED <<objectVars, DEFAULT_SERVICE, DEFAULT_INSTANCE, patterns, reserved_words,
                   compiled_patterns_cache, ulidVars, registryVars>>

\* settings.DEFAULT_SERVICE = s
SetDefaultService(s) ==
    /\ DEFAULT_SERVICE' = s
    /\ call' = NoCall
    /\ ret' = NoRet
    /\ UNCHANGED <<objectVars, RID_PREFIX, DEFAULT_INSTANCE, patterns, reserved_words,
                   compiled_patterns_cache, ulidVars, registryVars>>

\* settings.DEFAULT_INSTANCE = s
SetDefaultInstance(s) ==
    /\ DEFAULT_INSTANCE' = s
    /\ call' = NoCall
    /\ ret' = NoRet
    /\ UNCHANGED <<objectVars, RID_PREFIX, DEFAULT_SERVICE, patterns, reserved_words,
                   compiled_patterns_cache, ulidVars, registryVars>>

\* settings.RESERVED_WORDS = words
SetReservedWords(words) ==
    /\ reserved_words' = words
    /\ call' = NoCall
    /\ ret' = NoRet
    /\ UNCHANGED <<objectVars, RID_PREFIX, DEFAULT_SERVICE, DEFAULT_INSTANCE, patterns,
                   compiled_patterns_cache, ulidVars, registryVars>>

\* settings.set_pattern(name, pattern_string)
SetPattern(name, pattern_string) ==
    /\ call' = [op |-> "set_pattern", name |-> name,
                pattern_string |-> pattern_string]
    /\ \E res \in {set_pattern(patterns, compiled_patterns_cache, name,
                                pattern_string)} :
          /\ ret' = res.out
          /\ patterns' = res.patterns
          /\ compiled_patterns_cache' = res.cache
    /\ UNCHANGED <<objectVars, RID_PREFIX, DEFAULT_SERVICE, DEFAULT_INSTANCE,
                   reserved_words, ulidVars, registryVars>>

\* The environments Settings() is created in: REGISTRO_PATTERN_SERVICE and
\* REGISTRO_PATTERN_TYPE unset or set to one of the pattern texts.
EnvPatterns ==
    UNION { [names -> PatternTexts] : names \in SUBSET {"service", "type"} }

\* settings = Settings() in the environment env.  A failed initialization
\* leaves the object there was.
NewSettings(env) ==
    /\ call' = [op |-> "Settings", env |-> env]
    /\ \E res \in {initialize(InitPatterns, env)} :
          /\ ret' = res.out
          /\ IF res.out.kind = "ok"
             THEN /\ patterns' = res.patterns
                  /\ compiled_patterns_cache' = [n \in {} |-> ""]
                  /\ RID_PREFIX' = S_ri
                  /\ DEFAULT_SERVICE' = S_default
                  /\ DEFAULT_INSTANCE' = S_prod
                  /\ reserved_words' = InitReservedWords
             ELSE UNCHANGED <<settingsVars, compiled_patterns_cache>>
    /\ UNCHANGED <<objectVars, ulidVars, registryVars>>

\* settings.get_compiled_pattern(name): the pattern, known by its text, or
\* None.
GetCompiledPattern(name) ==
    /\ call' = [op |-> "get_compiled_pattern", name |-> name]
    /\ \E res \in {get_compiled_pattern(compiled_patterns_cache, name)} :
          /\ ret' = [kind |-> IF res.found THEN "ok" ELSE "None", err |-> "",
                     value |-> res.pattern]
          /\ compiled_patterns_cache' = res.cache
    /\ UNCHANGED <<objectVars, settingsVars, ulidVars, registryVars>>

\* cls.validate(v, None) of a component class, for a str v and for a value
\* that is no str.
ValidateComponent(cls, isStr, v) ==
    /\ call' = [op |-> "validate_component", cls |-> cls, isStr |-> isStr,
                arg |-> v]
    /\ \E res \in {ComponentValidateAny(cls, isStr, v,
                                         compiled_patterns_cache)} :
          /\ ret' = res.out
          /\ compiled_patterns_cache' = res.cache
    /\ UNCHANGED <<objectVars, settingsVars, ulidVars, registryVars>>

\* RID.validate(v, None) for a str v, and for a value that is no str.
Validate(isStr, v) ==
    /\ call' = [op |-> "validate", isStr |-> isStr, arg |-> v]
    /\ \E res \in {RID_validate(isStr, v, compiled_patterns_cache)} :
          /\ ret' = res.out
          /\ compiled_patterns_cache' = res.cache
    /\ UNCHANGED <<objectVars, settingsVars, ulidVars, registryVars>>

\* RID.generate(service, instance, type_, locator) called on thread t.
Generate(t, service, instance, type_, locator) ==
    \E r \in 0..MaxRand :
       \E res \in {RID_generate(service, instance, type_, locator,
                                compiled_patterns_cache, last_ulid[t], clock, r)} :
          /\ call' = [op |-> "generate", thread |-> t, service |-> service,
                      instance |-> instance, type_ |-> type_,
                      locator |-> locator]
          /\ ret' = res.out
          /\ compiled_patterns_cache' = res.cache
          /\ last_ulid' = [last_ulid EXCEPT ![t] = res.last]
          /\ UNCHANGED <<objectVars, settingsVars, clock, issued, registryVars>>

\* RID(v).components()
Components(v) ==
    /\ call' = [op |-> "components", arg |-> v]
    /\ ret' = RID_components(v)
    /\ UNCHANGED <<objectVars, settingsVars, compiled_patterns_cache, ulidVars,
                   registryVars>>

\* RID.validate on the string the last RID.generate returned.
ValidateGenerated ==
    /\ call.op = "generate"
    /\ ret.kind = "ok"
    /\ Validate(TRUE, ret.value)

----------------------------------------------------------------------------
(* The global type registry (registro/core/global_registry.py) *)

Names == {"", "x", "y"}
Ctors == {"A", "B"}

\* An empty dict.
EmptyTypes == [n \in {} |-> "A"]

\* None, as a lookup result.
None == "None"

\* register refusing every different constructor, allow_override or not.
register_no_override(ts, name, cls, allow_override) ==
    IF name = ""
    THEN [out |-> "ValueError: non-empty string", types |-> ts]
    ELSE IF name \in DOMAIN ts /\ ts[name] # cls
    THEN [out |-> "ValueError: already registered", types |-> ts]
    ELSE [out |-> "ok", types |-> (name :> cls) @@ ts]

\* GlobalRegistry.register on the dict ts: the outcome and the dict afterwards.
register(ts, name, cls, allow_override) ==
    IF name = ""
    THEN [out |-> "ValueError: non-empty string", types |-> ts]
    ELSE IF name \in DOMAIN ts /\ ts[name] # cls /\ ~allow_override
    THEN [out |-> "ValueError: already registered", types |-> ts]
    ELSE [out |-> "ok", types |-> (name :> cls) @@ ts]

\* unregister reading the binding without removing it (get in place of pop).
unregister_keeps(ts, name) ==
    IF name \in DOMAIN ts
    THEN [out |-> ts[name], types |-> ts]
    ELSE [out |-> None, types |-> ts]

\* unregister written with `del self._types[name]`: an unbound name raises.
unregister_del(ts, name) ==
    IF name \in DOMAIN ts
    THEN [out |-> ts[name], types |-> [n \in DOMAIN ts \ {name} |-> ts[n]]]
    ELSE [out |-> "KeyError", types |-> ts]

\* GlobalRegistry.unregister: self._types.pop(name, None)
unregister(ts, name) ==
    IF name \in DOMAIN ts
    THEN [out |-> ts[name], types |-> [n \in DOMAIN ts \ {name} |-> ts[n]]]
    ELSE [out |-> None, types |-> ts]

\* GlobalRegistry.clear
clear(ts) == [out |-> None, types |-> EmptyTypes]

\* GlobalRegistry.get: self._types.get(name)
get(ts, name) == IF name \in DOMAIN ts THEN ts[name] ELSE None

\* GlobalRegistry.get_or_error
get_or_error(ts, name) ==
    IF name \notin DOMAIN ts THEN "KeyError: not found" ELSE ts[name]

\* GlobalRegistry.is_registered
is_registered(ts, name) == name \in DOMAIN ts

\* GlobalRegistry.list_types, as the set of its elements
list_types(ts) == DOMAIN ts

\* sorted(self._types.keys()) for the names of the model.
NamesSorted == <<"", "x", "y">>

sorted_keys(ts) == SelectSeq(NamesSorted, LAMBDA n : n \in DOMAIN ts)

\* sep.join(items), as the sequence of its pieces.
RECURSIVE JoinNames(_, _)
JoinNames(sep, items) ==
    IF Len(items) <= 1 THEN items
    ELSE <<Head(items), sep>> \o JoinNames(sep, Tail(items))

\* The names listed being the first registered name alone.
available_types_first(ts) ==
    IF sorted_keys(ts) = <<>> THEN <<>> ELSE <<Head(sorted_keys(ts))>>

\* get_or_error: available_types = ", ".join(sorted(self._types.keys()))
available_types(ts) == JoinNames(", ", sorted_keys(ts))

\* The KeyError message of get_or_error: the name asked for and the names
\* available.
not_found_message(ts, name) ==
    [name |-> name, available |-> available_types(ts)]

\* The keyword arguments of a create_instance call, as the set of their
\* names.  type_name and self are the names of the method's own parameters.
FieldMaps == {{"name"}, {"name", "type_name"}}

\* What the constructor does when called with the fields: it returns an
\* instance, raises an Exception, or raises a BaseException that is no
\* Exception.
CtorBehaviours == {"instance", "Exception", "BaseException"}

NoInstance ==
    [kind |-> "None", cls |-> None, fields |-> {}, type_name |-> ""]

\* create_instance returning None when the constructor raises.
create_instance_swallow(ts, type_name, fields, behaviour) ==
    IF fields \cap {"type_name", "self"} # {}
    THEN [out |-> [NoInstance EXCEPT !.kind = "TypeError"],
          invoked |-> None, logged |-> <<>>, types |-> ts]
    ELSE IF type_name \notin DOMAIN ts
    THEN [out |-> [NoInstance EXCEPT !.kind = "KeyError: not found"],
          invoked |-> None, logged |-> <<>>, types |-> ts]
    ELSE IF behaviour = "instance"
    THEN [out |-> [kind |-> "instance", cls |-> ts[type_name],
                   fields |-> fields, type_name |-> ""],
          invoked |-> ts[type_name], logged |-> <<>>, types |-> ts]
    ELSE [out |-> NoInstance,
          invoked |-> ts[type_name], logged |-> <<>>, types |-> ts]

\* GlobalRegistry.create_instance(type_name, **kwargs).  A keyword named as
\* one of the method's parameters makes the call itself a TypeError.  The
\* result: what the caller gets (an instance, or the exception raised: `cls`
\* is the constructor it comes from), the constructor invoked, the lines
\* written with logger.error, and the dict afterwards.
create_instance(ts, type_name, fields, behaviour) ==
    IF fields \cap {"type_name", "self"} # {}
    THEN [out |-> [NoInstance EXCEPT !.kind = "TypeError"],
          invoked |-> None, logged |-> <<>>, types |-> ts]
    ELSE IF get_or_error(ts, type_name) = "KeyError: not found"
    THEN [out |-> [NoInstance EXCEPT !.kind = "KeyError: not found"],
          invoked |-> None, logged |-> <<>>, types |-> ts]
    ELSE IF behaviour = "instance"
    THEN [out |-> [kind |-> "instance", cls |-> ts[type_name],
                   fields |-> fields, type_name |-> ""],
          invoked |-> ts[type_name], logged |-> <<>>, types |-> ts]
    ELSE [out |-> [kind |-> behaviour, cls |-> ts[type_name],
                   fields |-> fields, type_name |-> ""],
          invoked |-> ts[type_name],
          logged |-> IF behaviour = "Exception"
                     THEN <<[type_name |-> type_name, cause |-> ts[type_name]]>>
                     ELSE <<>>,
          types |-> ts]

\* ResourceBaseModel.__init_subclass__ for a new class cls whose
\* __resource_type__ reads resource_type ("" when neither the class nor a
\* base sets one) and whose __tablename__ is or is not None: the outcome,
\* the registry dict afterwards and the warnings logged.  The hook checks
\* the type name and attaches the before_insert listener; it makes no call
\* on the global registry.
init_subclass(ts, cls, resource_type, has_tablename) ==
    IF has_tablename /\ resource_type = ""
    THEN [out |-> "ValueError: __resource_type__ must be set",
          types |-> ts, warnings |-> <<>>]
    ELSE [out |-> "ok", types |-> ts, warnings |-> <<>>]

\* One call made by a single thread, start to end, entered in the log.
Register(name, cls, allow_override) ==
    LET res == register(types, name, cls, allow_override) IN
    /\ Len(log) < MaxOps
    /\ types' = res.types
    /\ log' = Append(log, [op |-> "register", name |-> name, cls |-> cls,
                           allow_override |-> allow_override, out |-> res.out])
    /\ UNCHANGED <<objectVars, settingsVars, ulidVars, ridVars, pc, frame, types0>>

Unregister(name) ==
    LET res == unregister(types, name) IN
    /\ Len(log) < MaxOps
    /\ types' = res.types
    /\ log' = Append(log, [op |-> "unregister", name |-> name, cls |-> None,
                           allow_override |-> FALSE, out |-> res.out])
    /\ UNCHANGED <<objectVars, settingsVars, ulidVars, ridVars, pc, frame, types0>>

Clear ==
    /\ Len(log) < MaxOps
    /\ types' = clear(types).types
    /\ log' = Append(log, [op |-> "clear", name |-> "", cls |-> None,
                           allow_override |-> FALSE, out |-> None])
    /\ UNCHANGED <<objectVars, settingsVars, ulidVars, ridVars, pc, frame, types0>>

\* get(name), entered in the log.
Get(name) ==
    /\ Len(log) < MaxOps
    /\ types' = types
    /\ log' = Append(log, [op |-> "get", name |-> name, cls |-> None,
                           allow_override |-> FALSE,
                           out |-> get(types, name)])
    /\ UNCHANGED <<objectVars, settingsVars, ulidVars, ridVars, pc, frame, types0>>

\* get_or_error(name), entered in the log with the message of its KeyError.
GetOrError(name) ==
    /\ Len(log) < MaxOps
    /\ types' = types
    /\ log' = Append(log, [op |-> "get_or_error", name |-> name, cls |-> None,
                           allow_override |-> FALSE,
                           out |-> get_or_error(types, name),
                           message |-> not_found_message(types, name)])
    /\ UNCHANGED <<objectVars, settingsVars, ulidVars, ridVars, pc, frame, types0>>

\* create_instance(type_name, **fields) with a constructor that behaves as
\* `behaviour` says, entered in the log.
CreateInstance(type_name, fields, behaviour) ==
    LET res == create_instance(types, type_name, fields, behaviour) IN
    /\ Len(log) < MaxOps
    /\ types' = res.types
    /\ log' = Append(log, [op |-> "create_instance", name |-> type_name,
                           cls |-> None, allow_override |-> FALSE,
                           out |-> res.out, fields |-> fields,
                           invoked |-> res.invoked, logged |-> res.logged,
                           behaviour |-> IF res.invoked = None
                                         THEN "not called" ELSE behaviour])
    /\ UNCHANGED <<objectVars, settingsVars, ulidVars, ridVars, pc, frame, types0>>

\* class cls(ResourceTypeBaseModel): __resource_type__ = resource_type,
\* entered in the log.
DefineSubclass(cls, resource_type, has_tablename) ==
    LET res == init_subclass(types, cls, resource_type, has_tablename) IN
    /\ Len(log) < MaxOps
    /\ types' = res.types
    /\ log' = Append(log, [op |-> "define_subclass", name |-> resource_type,
                           cls |-> cls, allow_override |-> FALSE,
                           out |-> res.out, warnings |-> res.warnings])
    /\ UNCHANGED <<objectVars, settingsVars, ulidVars, ridVars, pc, frame, types0>>

----------------------------------------------------------------------------
(* Registry calls made by concurrent threads.  No method of GlobalRegistry  *)
(* takes a lock (_lock guards __new__ only), so a thread switch can fall    *)
(* between any two accesses to self._types; each access by itself (in,      *)
(* [], []=, pop, get, clear) is atomic under the interpreter lock.          *)

NoFrame == [op |-> "none"]

Finish(t, f, out) ==
    /\ pc' = [pc EXCEPT ![t] = "done"]
    /\ frame' = [frame EXCEPT ![t] = [f EXCEPT !.out = out]]

\* register(): the name check, then `name in self._types`.
BeginRegister(t, name, cls, allow_override) ==
    LET f == [op |-> "register", name |-> name, cls |-> cls,
              allow_override |-> allow_override, out |-> None]
    IN /\ pc[t] = "idle"
       /\ IF name = ""
          THEN Finish(t, f, "ValueError: non-empty string")
          ELSE /\ frame' = [frame EXCEPT ![t] = f]
               /\ pc' = [pc EXCEPT ![t] =
                            IF name \in DOMAIN types THEN "compare" ELSE "write"]
       /\ UNCHANGED <<objectVars, types, log, types0, settingsVars, ulidVars, ridVars>>

\* register(): `self._types[name] != cls`, and the branch it selects.
RegisterCompare(t) ==
    LET f == frame[t] IN
    /\ pc[t] = "compare"
    /\ IF f.name \notin DOMAIN types
       THEN Finish(t, f, "KeyError")
       ELSE IF types[f.name] # f.cls /\ ~f.allow_override
       THEN Finish(t, f, "ValueError: already registered")
       ELSE /\ pc' = [pc EXCEPT ![t] = "write"]
            /\ frame' = frame
    /\ UNCHANGED <<objectVars, types, log, types0, settingsVars, ulidVars, ridVars>>

\* register(): `self._types[name] = cls`
RegisterWrite(t) ==
    LET f == frame[t] IN
    /\ pc[t] = "write"
    /\ types' = (f.name :> f.cls) @@ types
    /\ Finish(t, f, "ok")
    /\ UNCHANGED <<objectVars, log, types0, settingsVars, ulidVars, ridVars>>

\* unregister(): one pop.
CallUnregister(t, name) ==
    LET res == unregister(types, name) IN
    /\ pc[t] = "idle"
    /\ types' = res.types
    /\ Finish(t, [op |-> "unregister", name |-> name, cls |-> None,
                  allow_override |-> FALSE, out |-> None], res.out)
    /\ UNCHANGED <<objectVars, log, types0, settingsVars, ulidVars, ridVars>>

\* clear(): one dict.clear().
CallClear(t) ==
    /\ pc[t] = "idle"
    /\ types' = clear(types).types
    /\ Finish(t, [op |-> "clear", name |-> "", cls |-> None,
                  allow_override |-> FALSE, out |-> None], None)
    /\ UNCHANGED <<objectVars, log, types0, settingsVars, ulidVars, ridVars>>

\* get(): one dict.get().
CallGet(t, name) ==
    /\ pc[t] = "idle"
    /\ Finish(t, [op |-> "get", name |-> name, cls |-> None,
                  allow_override |-> FALSE, out |-> None], get(types, name))
    /\ UNCHANGED <<objectVars, types, log, types0, settingsVars, ulidVars, ridVars>>

\* get_or_error(): `name not in self._types`
BeginGetOrError(t, name) ==
    LET f == [op |-> "get_or_error", name |-> name, cls |-> None,
              allow_override |-> FALSE, out |-> None]
    IN /\ pc[t] = "idle"
       /\ IF name \notin DOMAIN types
          THEN Finish(t, f, "KeyError: not found")
          ELSE /\ frame' = [frame EXCEPT ![t] = f]
               /\ pc' = [pc EXCEPT ![t] = "read"]
       /\ UNCHANGED <<objectVars, types, log, types0, settingsVars, ulidVars, ridVars>>

\* get_or_error(): `return self._types[name]`
GetOrErrorRead(t) ==
    LET f == frame[t] IN
    /\ pc[t] = "read"
    /\ Finish(t, f, IF f.name \in DOMAIN types THEN types[f.name]
                    ELSE "KeyError: not found")
    /\ UNCHANGED <<objectVars, types, log, types0, settingsVars, ulidVars, ridVars>>

\* What a call does when nothing runs beside it.
Serial(f, ts) ==
    CASE f.op = "register" -> register(ts, f.name, f.cls, f.allow_override)
      [] f.op = "unregister" -> unregister(ts, f.name)
      [] f.op = "clear" -> clear(ts)
      [] f.op = "get" -> [out |-> get(ts, f.name), types |-> ts]
      [] f.op = "get_or_error" -> [out |-> get_or_error(ts, f.name), types |-> ts]

----------------------------------------------------------------------------
(* Objects outside the settings, the generator and the registry *)

NoResource == [none |-> TRUE]

\* The owner of a lock that no thread holds.
NoThread == "free"

InitObjects ==
    /\ resource = NoResource
    /\ created = NoResource
    /\ lock = NoThread
    /\ counters = [k \in {} |-> 0]
    /\ mpc = [t \in Threads |-> "idle"]
    /\ mframe = [t \in Threads |-> NoFrame]
    /\ requested = [k \in {} |-> 0]
    /\ held = <<>>

----------------------------------------------------------------------------
(* The metrics collector (registro/utils/metrics.py) *)

\* The tags argument: None, or a dict from tag names to tag values.
NoTags == [given |-> FALSE, items |-> <<>>]
Tags(d) == [given |-> TRUE, items |-> d]

\* sep.join(parts) for strings.
RECURSIVE JoinWith(_, _)
JoinWith(sep, parts) ==
    IF parts = <<>> THEN <<>>
    ELSE IF Len(parts) = 1 THEN parts[1]
    ELSE parts[1] \o sep \o JoinWith(sep, Tail(parts))

\* sorted(tags.items()), for tag names of one lower-case letter.
sorted_items(d) ==
    LET ks == SelectSeq(LowerSeq, LAMBDA c : <<c>> \in DOMAIN d)
    IN [i \in 1..Len(ks) |-> << <<ks[i]>>, d[<<ks[i]>>] >>]

\* The key being the name alone, whatever the tags.
make_key_name(name, tags) == name

\* _make_key: the name, then the sorted k=v pairs between braces.
make_key(name, tags) ==
    IF ~tags.given \/ DOMAIN tags.items = {} THEN name
    ELSE LET its == sorted_items(tags.items)
             tag_str == JoinWith(<<",">>,
                            [i \in 1..Len(its) |-> its[i][1] \o <<"=">> \o its[i][2]])
         IN name \o <<"{">> \o tag_str \o <<"}">>

\* self._counters[key] of a defaultdict(float): a missing key reads as 0.0
\* and is inserted by the read.
counter_read(cs, key) ==
    IF key \in DOMAIN cs THEN [value |-> cs[key], counters |-> cs]
    ELSE [value |-> 0, counters |-> cs @@ (key :> 0)]

counter_write(cs, key, v) == [k \in DOMAIN cs \cup {key} |-> IF k = key THEN v ELSE cs[k]]

\* get_counter, the lock being free.
get_counter(cs, name, tags) == counter_read(cs, make_key(name, tags))

\* What the calls made so far ask of the counter of a name and a tag set.
Asked(name, items) ==
    IF <<name, items>> \in DOMAIN requested THEN requested[<<name, items>>] ELSE 0

RECURSIVE SumOver(_, _)
SumOver(f, ks) ==
    IF ks = {} THEN 0
    ELSE LET k == CHOOSE x \in ks : TRUE IN f[k] + SumOver(f, ks \ {k})

\* increment(name, value, tags) is called by thread t.
BeginIncrement(t, name, value, tags) ==
    /\ mpc[t] = "idle"
    /\ SumOver(requested, DOMAIN requested) + value <= MaxRequested
    /\ mframe' = [mframe EXCEPT ![t] =
                    [op |-> "increment", name |-> name, value |-> value,
                     tags |-> tags, key |-> <<>>, current |-> 0]]
    /\ mpc' = [mpc EXCEPT ![t] = "acquire"]
    /\ requested' = [k \in DOMAIN requested \cup {<<name, tags.items>>} |->
                        IF k = <<name, tags.items>>
                        THEN Asked(name, tags.items) + value
                        ELSE requested[k]]
    /\ UNCHANGED <<lock, counters, resourceVars, held, settingsVars, ulidVars,
                   registryVars, ridVars>>

\* increment: `with self._lock:`; an RLock admits its owner again.
AcquireLock(t) ==
    /\ mpc[t] = "acquire"
    /\ lock \in {NoThread, t}
    /\ lock' = t
    /\ mpc' = [mpc EXCEPT ![t] = "read"]
    /\ UNCHANGED <<counters, mframe, requested, resourceVars, held,
                   settingsVars, ulidVars, registryVars, ridVars>>

\* increment: key = self._make_key(name, tags), and the read half of
\* `self._counters[key] += value`.
IncrementRead(t) ==
    /\ mpc[t] = "read"
    /\ \E key \in {make_key(mframe[t].name, mframe[t].tags)} :
       \E r \in {counter_read(counters, key)} :
          /\ counters' = r.counters
          /\ mframe' = [mframe EXCEPT ![t].key = key, ![t].current = r.value]
    /\ mpc' = [mpc EXCEPT ![t] = "write"]
    /\ UNCHANGED <<lock, requested, resourceVars, held, settingsVars, ulidVars,
                   registryVars, ridVars>>

\* increment: the write half of `self._counters[key] += value`.
IncrementWrite(t) ==
    /\ mpc[t] = "write"
    /\ counters' = counter_write(counters, mframe[t].key,
                                 mframe[t].current + mframe[t].value)
    /\ mpc' = [mpc EXCEPT ![t] = "release"]
    /\ UNCHANGED <<lock, mframe, requested, resourceVars, held, settingsVars,
                   ulidVars, registryVars, ridVars>>

\* increment: the end of the with block.
ReleaseLock(t) ==
    /\ mpc[t] = "release"
    /\ lock' = NoThread
    /\ mpc' = [mpc EXCEPT ![t] = "idle"]
    /\ mframe' = [mframe EXCEPT ![t] = NoFrame]
    /\ UNCHANGED <<counters, requested, resourceVars, held, settingsVars,
                   ulidVars, registryVars, ridVars>>

\* get_counter(name, tags), called by thread t; the whole call runs under
\* the lock.
GetCounter(t, name, tags) ==
    /\ mpc[t] = "idle"
    /\ lock \in {NoThread, t}
    /\ \E r \in {get_counter(counters, name, tags)} :
          /\ counters' = r.counters
          /\ call' = [op |-> "get_counter", name |-> name, tags |-> tags]
          /\ ret' = [kind |-> "ok", value |-> r.value]
    /\ UNCHANGED <<lock, mpc, mframe, requested, resourceVars, held,
                   settingsVars, ulidVars, registryVars, compiled_patterns_cache>>

\* The counter name and the tag sets the threads use; the last two tag sets
\* differ and render to the same text.
M_name == <<"n">>
TagSets == {NoTags, Tags(<<>>), Tags(<<"a">> :> <<"b", ",", "c", "=", "d">>),
            Tags((<<"a">> :> <<"b">>) @@ (<<"c">> :> <<"d">>))}

----------------------------------------------------------------------------
(* The reserved-word set as an object (Settings.RESERVED_WORDS) *)

\* A set object in a caller's hands: its members, and whether it is the very
\* object that settings._reserved_words refers to.
SetObject(words, is_stored) == [words |-> words, is_stored |-> is_stored]

\* The getter handing out self._reserved_words itself.
RESERVED_WORDS_get_shared(stored) == SetObject(stored, TRUE)

\* RESERVED_WORDS getter: return self._reserved_words.copy()
RESERVED_WORDS_get(stored) == SetObject(stored, FALSE)

\* RESERVED_WORDS setter: self._reserved_words = set(words); the members
\* stored, and whether the object passed is the one stored.
RESERVED_WORDS_set(obj) == [stored |-> obj.words, arg_is_stored |-> FALSE]

\* words = settings.RESERVED_WORDS
ReadReservedWords ==
    /\ Len(held) < MaxHeld
    /\ held' = Append(held, RESERVED_WORDS_get(reserved_words))
    /\ call' = [op |-> "get_reserved_words"]
    /\ ret' = NoRet
    /\ UNCHANGED <<settingsVars, compiled_patterns_cache, ulidVars,
                   registryVars, resourceVars, metricsVars>>

\* words.add(w) or words.discard(w) on the i-th set the caller holds; the
\* settings see it when that set is the one they store.
MutateHeld(i, w, add) ==
    /\ i \in 1..Len(held)
    /\ \E ws \in {IF add THEN held[i].words \cup {w} ELSE held[i].words \ {w}} :
          /\ held' = [j \in 1..Len(held) |->
                         IF j = i \/ (held[i].is_stored /\ held[j].is_stored)
                         THEN [held[j] EXCEPT !.words = ws] ELSE held[j]]
          /\ reserved_words' = IF held[i].is_stored THEN ws ELSE reserved_words
    /\ call' = [op |-> "mutate_held", index |-> i, word |-> w, add |-> add]
    /\ ret' = NoRet
    /\ UNCHANGED <<RID_PREFIX, DEFAULT_SERVICE, DEFAULT_INSTANCE, patterns,
                   compiled_patterns_cache, ulidVars, registryVars,
                   resourceVars, metricsVars>>

\* settings.RESERVED_WORDS = words, words being the i-th set the caller holds.
AssignReservedWords(i) ==
    /\ i \in 1..Len(held)
    /\ \E res \in {RESERVED_WORDS_set(held[i])} :
          /\ reserved_words' = res.stored
          /\ held' = [j \in 1..Len(held) |->
                         [held[j] EXCEPT !.is_stored =
                             /\ res.arg_is_stored
                             /\ (j = i \/ (held[i].is_stored /\ held[j].is_stored))]]
    /\ call' = [op |-> "set_reserved_words", index |-> i]
    /\ ret' = NoRet
    /\ UNCHANGED <<RID_PREFIX, DEFAULT_SERVICE, DEFAULT_INSTANCE, patterns,
                   compiled_patterns_cache, ulidVars, registryVars,
                   resourceVars, metricsVars>>

----------------------------------------------------------------------------
(* The Resource entity (registro/core/resource.py) *)

\* None as the value of a field; no string of the model equals it.
PyNone == <<"<None>">>

ResourceFields == <<"id", "rid", "service", "instance", "resource_type">>

\* Resource._immutable_fields
immutable_fields == {"id", "rid", "service", "instance", "resource_type"}

\* A Resource object before any field is assigned: reading a field that was
\* never assigned gives None (or no attribute at all, which __setattr__
\* treats the same way).
FreshResource ==
    [id |-> PyNone, rid |-> PyNone, service |-> PyNone, instance |-> PyNone,
     resource_type |-> PyNone, meta_tags |-> <<>>]

\* Keyword arguments of Resource(...): `x not in data or data[x] is None`.
NoData ==
    [id |-> Omitted, rid |-> Omitted, service |-> Omitted,
     instance |-> Omitted, resource_type |-> Omitted]

\* data[x] if supplied, else the fill-in.
supplied_or(arg, fill) == IF arg.given THEN arg.s ELSE fill

\* __setattr__ that refuses every assignment to a protected field that holds
\* a value, the value already held included.
Resource_setattr_strict(obj, name, value) ==
    IF name \notin immutable_fields \/ obj[name] = PyNone
    THEN [out |-> Returned(<<>>), obj |-> [obj EXCEPT ![name] = value]]
    ELSE [out |-> Raised("AttributeError", "Cannot modify immutable field"),
          obj |-> obj]

\* Resource.__setattr__(name, value) on an object with fields obj: the
\* outcome and the fields afterwards.
Resource_setattr(obj, name, value) ==
    IF name \notin immutable_fields
    THEN [out |-> Returned(<<>>), obj |-> [obj EXCEPT ![name] = value]]
    ELSE IF obj[name] = PyNone
    THEN [out |-> Returned(<<>>), obj |-> [obj EXCEPT ![name] = value]]
    ELSE IF value # obj[name]
    THEN [out |-> Raised("AttributeError", "Cannot modify immutable field"),
          obj |-> obj]
    ELSE [out |-> Returned(<<>>), obj |-> [obj EXCEPT ![name] = value]]

\* Resource.__init__, the branch for a supplied rid (lines 166-190): the
\* data passed on to super().__init__, or the error raised.
init_from_rid(data, parts, prefix) ==
    IF Len(parts) # 5
    THEN [out |-> Raised("ValueError", "Invalid RID format"), data |-> FreshResource]
    ELSE IF parts[1] # prefix
    THEN [out |-> Raised("ValueError", "Invalid RID prefix"), data |-> FreshResource]
    ELSE IF data.id.given /\ data.id.s # parts[5]
    THEN [out |-> Raised("ValueError", "RID locator does not match id"),
          data |-> FreshResource]
    ELSE [out |-> Returned(<<>>),
          data |-> [id |-> supplied_or(data.id, parts[5]),
                    rid |-> data.rid.s,
                    service |-> supplied_or(data.service, parts[2]),
                    instance |-> supplied_or(data.instance, parts[3]),
                    resource_type |-> supplied_or(data.resource_type, parts[4]),
                    meta_tags |-> <<>>]]

\* Resource.__init__, the branch without a rid (lines 191-209); fresh is
\* what generate_ulid() returns if it is called.
init_generated(id, service, instance, resource_type, prefix) ==
    [out |-> Returned(<<>>),
     data |-> [id |-> id, rid |-> Join(<<prefix, service, instance,
                                         resource_type, id>>),
               service |-> service, instance |-> instance,
               resource_type |-> resource_type, meta_tags |-> <<>>]]

\* Resource.__init__ up to the call of super().__init__(**data).
Resource_init(data, prefix, default_service, default_instance, fresh) ==
    IF data.rid.given
    THEN init_from_rid(data, Split(data.rid.s), prefix)
    ELSE init_generated(supplied_or(data.id, fresh),
                        supplied_or(data.service, default_service),
                        supplied_or(data.instance, default_instance),
                        supplied_or(data.resource_type, S_resource),
                        prefix)

\* super().__init__ for a table model: every field is assigned with setattr
\* on the new object, in turn, and no validator runs.
RECURSIVE set_fields(_, _, _)
set_fields(obj, names, values) ==
    IF names = <<>> THEN [out |-> Returned(<<>>), obj |-> obj]
    ELSE LET r == Resource_setattr(obj, Head(names), values[Head(names)])
         IN IF r.out.kind # "ok" THEN r
            ELSE set_fields(r.obj, Tail(names), values)

\* ensure_rid_consistency, lines 264-270: the locator of the rid against id.
erc_locator(obj, parts) ==
    IF parts[5] # obj.id
    THEN [out |-> Raised("ValueError", "RID locator does not match id"),
          obj |-> obj]
    ELSE [out |-> Returned(<<>>), obj |-> obj]

\* One `if not self.x or self.x == default: self.x = part`, then the rest.
erc_assign(obj, name, default, part) ==
    IF obj[name] \in {<<>>, PyNone, default}
    THEN Resource_setattr(obj, name, part)
    ELSE [out |-> Returned(<<>>), obj |-> obj]

erc_type(r, parts) ==
    IF r.out.kind # "ok" THEN r
    ELSE \* resource_type, then the locator
         LET q == erc_assign(r.obj, "resource_type", S_resource, parts[4])
         IN IF q.out.kind # "ok" THEN q ELSE erc_locator(q.obj, parts)

erc_instance(r, parts, default_instance) ==
    IF r.out.kind # "ok" THEN r
    ELSE erc_type(erc_assign(r.obj, "instance", default_instance, parts[3]),
                  parts)

\* ensure_rid_consistency when self.rid is set.
erc_with_rid(obj, parts, prefix, default_service, default_instance) ==
    IF Len(parts) # 5
    THEN [out |-> Raised("ValueError", "Invalid RID format"), obj |-> obj]
    ELSE IF parts[1] # prefix
    THEN [out |-> Raised("ValueError", "Invalid RID prefix"), obj |-> obj]
    ELSE erc_instance(erc_assign(obj, "service", default_service, parts[2]),
                      parts, default_instance)

\* One `if not self.x: self.x = default` of the branch without a rid, applied
\* to the outcome so far.
erc_default(r, name, default) ==
    IF r.out.kind # "ok" THEN r
    ELSE IF r.obj[name] \in {<<>>, PyNone}
    THEN Resource_setattr(r.obj, name, default)
    ELSE r

\* The rid built from the components, assigned to self.rid.
erc_build_rid(r, prefix) ==
    IF r.out.kind # "ok" THEN r
    ELSE Resource_setattr(r.obj, "rid",
                          Join(<<prefix, r.obj.service, r.obj.instance,
                                 r.obj.resource_type, r.obj.id>>))

\* ensure_rid_consistency when self.rid is empty or None.
erc_without_rid(obj, prefix, default_service, default_instance) ==
    erc_build_rid(
        erc_default(
            erc_default(
                erc_default([out |-> Returned(<<>>), obj |-> obj],
                            "service", default_service),
                "instance", default_instance),
            "resource_type", S_resource),
        prefix)

\* Resource.ensure_rid_consistency, the validator that runs after the fields
\* are set when the framework validates the model.
ensure_rid_consistency(obj, prefix, default_service, default_instance) ==
    IF obj.rid \notin {<<>>, PyNone}
    THEN erc_with_rid(obj, Split(obj.rid), prefix, default_service,
                      default_instance)
    ELSE erc_without_rid(obj, prefix, default_service, default_instance)

\* The field validators of service, instance and resource_type, which run
\* when the framework validates the model: the first error, and the cache
\* after the three lookups.
validate_fields(d, c) ==
    LET r1 == ComponentValidate("ServiceStr", d.service, c)
        r2 == ComponentValidate("InstanceStr", d.instance, r1.cache)
        r3 == ComponentValidate("TypeStr", d.resource_type, r2.cache)
    IN [out |-> IF r1.out.kind # "ok" THEN r1.out
                ELSE IF r2.out.kind # "ok" THEN r2.out
                ELSE IF r3.out.kind # "ok" THEN r3.out
                ELSE Returned(<<>>),
        cache |-> r3.cache]

\* super().__init__(**data) when the framework validates: the fields are
\* validated and stored, then ensure_rid_consistency runs on the object.
init_validated(d, v, prefix, default_service, default_instance) ==
    IF v.out.kind # "ok"
    THEN [out |-> v.out, obj |-> d, cache |-> v.cache]
    ELSE [out |-> ensure_rid_consistency(d, prefix, default_service,
                                         default_instance).out,
          obj |-> ensure_rid_consistency(d, prefix, default_service,
                                         default_instance).obj,
          cache |-> v.cache]

\* super().__init__(**data) for the data Resource.__init__ prepared.
\* SQLModel builds a table model without validation (validated = FALSE);
\* a model that is validated on construction also runs the validators.
super_init(i, validated, prefix, default_service, default_instance, c) ==
    IF i.out.kind # "ok"
    THEN [out |-> i.out, obj |-> i.data, cache |-> c]
    ELSE IF validated
    THEN init_validated(i.data, validate_fields(i.data, c), prefix,
                        default_service, default_instance)
    ELSE [out |-> set_fields(FreshResource, ResourceFields, i.data).out,
          obj |-> set_fields(FreshResource, ResourceFields, i.data).obj,
          cache |-> c]

\* Resource(**data): the outcome, the fields of the new object and the
\* pattern cache afterwards.
Resource_new(data, validated, prefix, default_service, default_instance, fresh, c) ==
    super_init(Resource_init(data, prefix, default_service, default_instance,
                             fresh),
               validated, prefix, default_service, default_instance, c)

\* Resource(...) calls generate_ulid() when it gets neither a rid nor an id.
calls_generate_ulid(data) == ~data.rid.given /\ ~data.id.given

\* The strings the model builds Resources from.
R_valid == Join(<<S_ri, S_svc, S_inst, S_t, L_zeros>>)

ResourceData ==
    { NoData,
      [NoData EXCEPT !.service = Given(S_svc), !.resource_type = Given(S_widget)],
      [NoData EXCEPT !.service = Given(S_a_b_c_d)],
      [NoData EXCEPT !.id = Given(L_zeros)],
      [NoData EXCEPT !.rid = Given(R_valid)],
      [NoData EXCEPT !.rid = Given(S_a_b_c_d)],
      [NoData EXCEPT !.rid = Given(R_valid), !.id = Given(L_zeros)],
      [NoData EXCEPT !.rid = Given(R_valid), !.id = Given(L_As)],
      [NoData EXCEPT !.rid = Given(R_valid), !.service = Given(S_svc)],
      [NoData EXCEPT !.rid = Given(R_valid), !.service = Given(S_new)],
      [NoData EXCEPT !.rid = Given(R_valid), !.service = Given(S_default)],
      [NoData EXCEPT !.rid = Given(R_valid), !.resource_type = Given(S_widget)] }

AttributeValues == {S_new, PyNone}

\* r = Resource(**data) on the main thread; the model follows one object.
Construct(data, validated) ==
    /\ resource = NoResource
    /\ calls_generate_ulid(data) => Len(issued[MainThread]) < MaxIssued
    /\ \E r \in 0..MaxRand :
       \E u \in {new_ulid(last_ulid[MainThread], clock, r)} :
       \E res \in {Resource_new(data, validated, RID_PREFIX, DEFAULT_SERVICE,
                                DEFAULT_INSTANCE, UlidStr(u),
                                compiled_patterns_cache)} :
          /\ call' = [op |-> "Resource", data |-> data, validated |-> validated]
          /\ ret' = res.out
          /\ compiled_patterns_cache' = res.cache
          /\ resource' = IF res.out.kind = "ok" THEN res.obj ELSE resource
          /\ created' = IF res.out.kind = "ok" THEN res.obj ELSE created
          /\ IF calls_generate_ulid(data)
             THEN /\ last_ulid' = [last_ulid EXCEPT ![MainThread] = u]
                  /\ issued' = [issued EXCEPT ![MainThread] =
                                   Append(@, UlidStr(u))]
             ELSE UNCHANGED <<last_ulid, issued>>
    /\ UNCHANGED <<settingsVars, clock, registryVars, metricsVars, held>>

\* r.name = value on the Resource constructed last.
SetAttr(name, value) ==
    /\ resource # NoResource
    /\ \E res \in {Resource_setattr(resource, name, value)} :
          /\ call' = [op |-> "setattr", name |-> name, value |-> value]
          /\ ret' = res.out
          /\ resource' = res.obj
    /\ UNCHANGED <<settingsVars, compiled_patterns_cache, ulidVars,
                   registryVars, created, metricsVars, held>>

----------------------------------------------------------------------------
(* api_name validation (registro/models/patterns.py, resource_base.py) *)

\* patterns.RESERVED_WORDS, the default reserved words of validate_string.
RESERVED_WORDS ==
    { <<"r","e","g","i","s","t","r","o">>,
      <<"r","e","s","o","u","r","c","e">>,
      <<"p","r","o","p","e","r","t","y">>,
      <<"l","i","n","k">>,
      <<"r","e","l","a","t","i","o","n">>,
      <<"r","i","d">>,
      <<"p","r","i","m","a","r","y","K","e","y">>,
      <<"t","y","p","e","I","d">>,
      <<"r","e","s","o","u","r","c","e","O","b","j","e","c","t">>,
      <<"c","r","e","a","t","e">>,
      <<"r","e","a","d">>,
      <<"u","p","d","a","t","e">>,
      <<"d","e","l","e","t","e">>,
      <<"l","i","s","t">>,
      <<"a","l","l">>,
      <<"n","u","l","l">>,
      <<"t","r","u","e">>,
      <<"f","a","l","s","e">>,
      <<"n","o","n","e">>,
      <<"i","d">> }

T_object_type == <<"o","b","j","e","c","t","-","t","y","p","e">>
T_link_type == <<"l","i","n","k","-","t","y","p","e">>
T_action_type == <<"a","c","t","i","o","n","-","t","y","p","e">>
T_query_type == <<"q","u","e","r","y","-","t","y","p","e">>

\* validate_api_name: patterns.get(resource_type, ACTION_TYPE_API_NAME_PATTERN)
api_name_pattern(resource_type) ==
    CASE resource_type = T_object_type -> PAT_API_OBJECT
      [] resource_type = T_link_type -> PAT_API_LINK
      [] resource_type = T_action_type -> PAT_API_ACTION
      [] resource_type = T_query_type -> PAT_API_QUERY
      [] OTHER -> PAT_API_ACTION

\* validate_api_name: cls.__resource_type__, or the fourth part of the rid
\* among the fields validated before api_name.
api_name_resource_type(rid, cls_resource_type) ==
    IF rid \in {PyNone, <<>>} THEN cls_resource_type
    ELSE IF Len(Split(rid)) >= 4 THEN Split(rid)[4]
    ELSE cls_resource_type

\* ResourceBaseModel.validate_api_name
validate_api_name(v, rid, cls_resource_type) ==
    validate_string(v, api_name_pattern(api_name_resource_type(rid, cls_resource_type)),
                    RESERVED_WORDS)

\* The api names, rids and class resource types validate_api_name is given.
ApiNames == RESERVED_WORDS \cup {<<"P","e","r","s","o","n">>,
                                 <<"g","e","t","U","s","e","r","s">>,
                                 <<"R","i","d">>, <<"N","u","l","l">>}
ApiRids == {PyNone, R_valid, <<"a",".","b">>,
            Join(<<S_ri, S_svc, S_inst, T_object_type, L_zeros>>)}
ApiResourceTypes == {<<>>, T_object_type, T_link_type, T_action_type,
                     T_query_type}

\* The api_name field validator run on v for a class of the given
\* __resource_type__, the rid field being rid.
ValidateApiName(v, rid, cls_resource_type) ==
    /\ call' = [op |-> "validate_api_name", v |-> v, rid |-> rid,
                resource_type |-> cls_resource_type]
    /\ ret' = validate_api_name(v, rid, cls_resource_type)
    /\ UNCHANGED <<objectVars, settingsVars, compiled_patterns_cache, ulidVars,
                   registryVars>>

----------------------------------------------------------------------------
(* Specifications *)

InitSettings ==
    /\ RID_PREFIX = S_ri
    /\ DEFAULT_SERVICE = S_default
    /\ DEFAULT_INSTANCE = S_prod
    /\ patterns = InitPatterns
    /\ compiled_patterns_cache = [n \in {} |-> ""]
    /\ reserved_words = InitReservedWords

InitRest ==
    /\ clock = 0
    /\ last_ulid = [t \in Threads |-> NoUlid]
    /\ issued = [t \in Threads |-> <<>>]
    /\ types = EmptyTypes
    /\ log = <<>>
    /\ pc = [t \in Threads |-> "idle"]
    /\ frame = [t \in Threads |-> NoFrame]
    /\ call = NoCall
    /\ ret = NoRet
    /\ InitObjects

Init == InitSettings /\ InitRest /\ types0 = EmptyTypes

\* Settings and RID operations, one call after another on the main thread.
Next ==
    \/ \E p \in PrefixValues : SetRidPrefix(p)
    \/ \E sv \in DefaultServiceValues : SetDefaultService(sv)
    \/ \E i \in DefaultInstanceValues : SetDefaultInstance(i)
    \/ \E v \in RidInputs : Validate(TRUE, v)
    \/ Validate(FALSE, <<>>)
    \/ ValidateGenerated
    \/ \E c \in GenerateCalls : Generate(MainThread, c[1], c[2], c[3], c[4])
    \/ \E v \in RidInputs : Components(v)

Spec == Init /\ [][Next]_vars

\* The reserved words and the defaults reassigned, components validated.
NextReserved ==
    \/ \E w \in ReservedWordSets : SetReservedWords(w)
    \/ \E sv \in DefaultServiceValues : SetDefaultService(sv)
    \/ \E i \in DefaultInstanceValues : SetDefaultInstance(i)
    \/ \E c \in ComponentCalls : ValidateComponent(c[1], TRUE, c[2])
    \/ \E cls \in {"ServiceStr", "LocatorStr"} :
          ValidateComponent(cls, FALSE, <<>>)

SpecReserved == Init /\ [][NextReserved]_vars

\* The patterns and the prefix reassigned, patterns looked up, components and
\* whole RIDs validated.
NextPatterns ==
    \/ \E n \in PatternNames, ps \in PatternTexts : SetPattern(n, ps)
    \/ \E n \in PatternNames : GetCompiledPattern(n)
    \/ \E p \in PrefixValues : SetRidPrefix(p)
    \/ \E c \in PatternCalls : ValidateComponent(c[1], TRUE, c[2])
    \/ \E v \in WholeRidInputs : Validate(TRUE, v)

SpecPatterns == Init /\ [][NextPatterns]_vars

\* Direct calls of generate_ulid on each thread as time passes.
NextUlid ==
    \/ Tick
    \/ \E t \in Threads : GenerateUlid(t)

SpecUlid == Init /\ [][NextUlid]_vars

\* Registry calls, one after another.
NextRegistry ==
    \/ \E n \in Names, c \in Ctors, o \in BOOLEAN : Register(n, c, o)
    \/ \E n \in Names : Unregister(n)
    \/ Clear

SpecRegistry == Init /\ [][NextRegistry]_vars

\* Lookups and instance creation between registrations and removals.
NextLookups ==
    \/ \E n \in Names \ {""}, c \in Ctors : Register(n, c, FALSE)
    \/ \E n \in Names \ {""} : Unregister(n)
    \/ \E n \in Names : Get(n)
    \/ \E n \in Names : GetOrError(n)
    \/ \E n \in Names \ {""}, f \in FieldMaps, b \in CtorBehaviours :
          CreateInstance(n, f, b)

SpecLookups == Init /\ [][NextLookups]_vars

\* Class definitions between explicit registrations and removals.
NextClasses ==
    \/ \E n \in Names \ {""}, c \in Ctors : Register(n, c, FALSE)
    \/ \E n \in Names \ {""} : Unregister(n)
    \/ \E c \in Ctors, n \in Names, t \in BOOLEAN : DefineSubclass(c, n, t)

SpecClasses == Init /\ [][NextClasses]_vars

\* Resources constructed and assigned to while the settings change.
NextResource ==
    \/ \E p \in PrefixValues : SetRidPrefix(p)
    \/ \E sv \in {S_default, S_new} : SetDefaultService(sv)
    \/ \E d \in ResourceData, v \in BOOLEAN : Construct(d, v)
    \/ \E n \in immutable_fields, v \in AttributeValues : SetAttr(n, v)
    \/ \E n \in immutable_fields : SetAttr(n, resource[n])
    \/ SetAttr("meta_tags", S_svc)

SpecResource == Init /\ [][NextResource]_vars

\* Settings objects created in different environments, and their patterns
\* set and compiled afterwards.
NextInit ==
    \/ \E env \in EnvPatterns : NewSettings(env)
    \/ \E n \in PatternNames, t \in PatternTexts : SetPattern(n, t)
    \/ \E n \in PatternNames : GetCompiledPattern(n)

SpecInit == Init /\ [][NextInit]_vars

\* increment and get_counter calls of two threads, interleaved step by step.
NextMetrics ==
    \E t \in Threads :
       \/ \E v \in {1, 2}, tg \in TagSets : BeginIncrement(t, M_name, v, tg)
       \/ AcquireLock(t)
       \/ IncrementRead(t)
       \/ IncrementWrite(t)
       \/ ReleaseLock(t)
       \/ \E tg \in TagSets : GetCounter(t, M_name, tg)

SpecMetrics == Init /\ [][NextMetrics]_vars

\* A caller that reads the reserved words, changes the sets it holds and
\* assigns them back, with components validated in between.
NextWords ==
    \/ ReadReservedWords
    \/ \E i \in 1..MaxHeld, w \in {S_new, S_svc}, add \in BOOLEAN :
          MutateHeld(i, w, add)
    \/ \E i \in 1..MaxHeld : AssignReservedWords(i)
    \/ \E v \in {S_new, S_svc} : ValidateComponent("ServiceStr", TRUE, v)

SpecWords == Init /\ [][NextWords]_vars

\* The api_name validator run on reserved words and other names, for every
\* naming convention.
NextApi ==
    \E v \in ApiNames, rid \in ApiRids, rt \in ApiResourceTypes :
       ValidateApiName(v, rid, rt)

SpecApi == Init /\ [][NextApi]_vars

\* RID.generate called with service and instance omitted, empty or given,
\* while the defaults are reassigned.
GenerateServiceArgs == {Omitted, Given(<<>>), Given(S_svc), Given(S_Svc)}
GenerateInstanceArgs == {Omitted, Given(<<>>), Given(S_inst), Given(S_Inst)}

NextDefaults ==
    \/ \E sv \in DefaultServiceValues : SetDefaultService(sv)
    \/ \E i \in DefaultInstanceValues : SetDefaultInstance(i)
    \/ \E sv \in GenerateServiceArgs, i \in GenerateInstanceArgs,
          l \in {Omitted, Given(L_zeros)} :
          Generate(MainThread, sv, i, Omitted, l)

SpecDefaults == Init /\ [][NextDefaults]_vars

\* One registry call per thread, the threads interleaved, from a registry
\* that is empty or holds x -> A.
InitThreads ==
    /\ InitSettings
    /\ clock = 0
    /\ last_ulid = [t \in Threads |-> NoUlid]
    /\ issued = [t \in Threads |-> <<>>]
    /\ types0 \in {EmptyTypes, ("x" :> "A")}
    /\ types = types0
    /\ log = <<>>
    /\ pc = [t \in Threads |-> "idle"]
    /\ frame = [t \in Threads |-> NoFrame]
    /\ call = NoCall
    /\ ret = NoRet
    /\ InitObjects

NextThreads ==
    \E t \in Threads :
       \/ \E n \in Names, c \in Ctors, o \in BOOLEAN : BeginRegister(t, n, c, o)
       \/ RegisterCompare(t)
       \/ RegisterWrite(t)
       \/ \E n \in Names : CallUnregister(t, n)
       \/ CallClear(t)
       \/ \E n \in Names : CallGet(t, n)
       \/ \E n \in Names : BeginGetOrError(t, n)
       \/ GetOrErrorRead(t)

SpecThreads == InitThreads /\ [][NextThreads]_vars

----------------------------------------------------------------------------
(* Claims about RID.validate *)

\* The component v passes the validator class cls under the current settings.
Passes(cls, v) ==
    ComponentValidate(cls, v, compiled_patterns_cache).out.kind = "ok"

\* r is <RID_PREFIX>.<service>.<instance>.<type>.<locator> with four
\* components that pass their validators.
ValidRidString(r) ==
    \E sv, i, ty, l \in {Split(r)[k] : k \in 1..Len(Split(r))} :
       /\ r = Join(<<RID_PREFIX, sv, i, ty, l>>)
       /\ Passes("ServiceStr", sv)
       /\ Passes("InstanceStr", i)
       /\ Passes("TypeStr", ty)
       /\ Passes("LocatorStr", l)

\* C1: RID.validate(r) returns r unchanged for every string r of the form
\* <RID_PREFIX>.<service>.<instance>.<type>.<locator> whose components pass
\* their validators, the strings RID.generate returns among them.
C1_ValidateReturnsValidRid ==
    (call.op = "validate" /\ call.isStr /\ ValidRidString(call.arg))
        => ret = Returned(call.arg)

\* The outcome the stated order of checks gives: (a) a str, (b) the composed
\* whole-RID pattern, (c) five parts, (d) the prefix, (e) the four component
\* validators; the first check that fails names the error.
FirstFailingCheck(isStr, v) ==
    IF ~isStr THEN Raised("TypeError", "Expected string")
    ELSE IF ~get_rid_pattern_matches(v)
    THEN Raised("ValueError", "Invalid RID format")
    ELSE IF Len(Split(v)) # 5
    THEN Raised("ValueError", "RID must have 5 parts")
    ELSE IF Split(v)[1] # RID_PREFIX
    THEN Raised("ValueError", "RID prefix must be")
    ELSE IF ~Passes("ServiceStr", Split(v)[2])
    THEN ComponentValidate("ServiceStr", Split(v)[2], compiled_patterns_cache).out
    ELSE IF ~Passes("InstanceStr", Split(v)[3])
    THEN ComponentValidate("InstanceStr", Split(v)[3], compiled_patterns_cache).out
    ELSE IF ~Passes("TypeStr", Split(v)[4])
    THEN ComponentValidate("TypeStr", Split(v)[4], compiled_patterns_cache).out
    ELSE IF ~Passes("LocatorStr", Split(v)[5])
    THEN ComponentValidate("LocatorStr", Split(v)[5], compiled_patterns_cache).out
    ELSE Returned(v)

\* C6: RID.validate applies the checks (a) to (e) in that order, returns the
\* value when all pass and otherwise raises the error of the first that fails.
C6_ChecksInOrder ==
    call.op = "validate" => ret = FirstFailingCheck(call.isStr, call.arg)

NumDots(v) == Cardinality({k \in 1..Len(v) : v[k] = "."})

\* C7: RID.validate rejects a string of 4 dot-separated parts with 'RID must
\* have 5 parts', a valid RID whose first segment is not RID_PREFIX with 'RID
\* prefix ... must be ...', and a service segment holding an uppercase letter
\* with a pattern-mismatch error.
C7_RejectionBoundary ==
    (call.op = "validate" /\ call.isStr) =>
       /\ NumDots(call.arg) = 3
             => ret = Raised("ValueError", "RID must have 5 parts")
       /\ (/\ NumDots(call.arg) = 4
           /\ Split(call.arg)[1] # RID_PREFIX
           /\ ValidRidString(Join(<<RID_PREFIX>> \o Tail(Split(call.arg)))))
             => ret = Raised("ValueError", "RID prefix must be")
       /\ (/\ NumDots(call.arg) = 4
           /\ \E k \in 1..Len(Split(call.arg)[2]) :
                 Split(call.arg)[2][k] \in UpperChars)
             => /\ ret.kind = "ValueError"
                /\ ret.err \in {"Invalid RID format", "does not match pattern"}

----------------------------------------------------------------------------
(* Claims about generate_ulid *)

\* The place of a Crockford base32 character in the alphabet, which is also
\* its place in character order.
CharIndex(c) == CHOOSE k \in 1..Len(CrockfordSeq) : CrockfordSeq[k] = c

\* a < b as Python compares two str of the same length.
LexLess(a, b) ==
    \E k \in 1..Len(a) :
       /\ \A j \in 1..(k - 1) : a[j] = b[j]
       /\ CharIndex(a[k]) < CharIndex(b[k])

\* C2: the strings one thread got from its sequential generate_ulid() calls
\* are pairwise distinct and each is lexicographically strictly greater than
\* the one before it, calls within one millisecond included.
C2_UlidsStrictlyIncrease ==
    \A t \in Threads :
       \A i \in 1..Len(issued[t]) :
          /\ \A j \in 1..Len(issued[t]) : i # j => issued[t][i] # issued[t][j]
          /\ i > 1 => LexLess(issued[t][i - 1], issued[t][i])

----------------------------------------------------------------------------
(* Claims about GlobalRegistry, one caller *)

\* The call a step has just entered in the log.
LastCall == log'[Len(log')]

\* The duplicate-name policy on a register step whose name is one of `names`.
DuplicatePolicy(names) ==
    (Len(log') = Len(log) + 1 /\ LastCall.op = "register"
        /\ LastCall.name \in names) =>
       LET name == LastCall.name
           cls == LastCall.cls
           bound == name \in DOMAIN types
       IN /\ (bound /\ types[name] # cls /\ ~LastCall.allow_override) =>
                /\ LastCall.out = "ValueError: already registered"
                /\ types' = types
          /\ (~bound \/ LastCall.allow_override) =>
                /\ LastCall.out = "ok"
                /\ get(types', name) = cls
                /\ \A n \in DOMAIN types \ {name} :
                      n \in DOMAIN types' /\ types'[n] = types[n]
          /\ (bound /\ types[name] = cls) =>
                /\ LastCall.out = "ok"
                /\ types' = types

\* C3 as stated: the duplicate-name policy of register(name, ctor,
\* allow_override) for every name: a different constructor bound and no
\* override raises and changes no binding; an unbound name or an allowed
\* override succeeds and get(name) then returns ctor; the same constructor
\* again is a no-op success.
C3_DuplicatePolicyEveryName == [][DuplicatePolicy(Names)]_vars

\* C3 amended: the same policy for every non-empty name (register raises
\* ValueError for the empty name before it looks at the bindings).
C3_DuplicatePolicy == [][DuplicatePolicy(Names \ {""})]_vars

\* C3's case: a register refused as a duplicate, then allowed as an override.
C3_Witness ==
    \E i, j \in 1..Len(log) :
       /\ i < j
       /\ log[i].op = "register" /\ log[j].op = "register"
       /\ log[i].out = "ValueError: already registered"
       /\ log[j].name = log[i].name /\ log[j].cls = log[i].cls
       /\ log[j].allow_override /\ log[j].out = "ok"
       /\ get(types, log[j].name) = log[j].cls

\* The binding of name that the first k calls of the log leave: that of the
\* most recent successful register(name, .) with no unregister(name) or
\* clear() after it.
RECURSIVE LastBinding(_, _)
LastBinding(k, name) ==
    IF k = 0 THEN None
    ELSE LET e == log[k] IN
         IF e.op = "clear" \/ (e.op = "unregister" /\ e.name = name)
         THEN None
         ELSE IF e.op = "register" /\ e.name = name /\ e.out = "ok"
         THEN e.cls
         ELSE LastBinding(k - 1, name)

\* The three lookups agree, and the binding is the one the calls made so far
\* determine.
BindingsFollowLog ==
    \A n \in Names :
       /\ get(types, n) \in Ctors \cup {None}
       /\ get(types, n) = LastBinding(Len(log), n)
       /\ is_registered(types, n) <=> get(types, n) # None
       /\ is_registered(types, n) <=> n \in list_types(types)

\* Every change of a name's binding is one of the four transitions.
KeyTransition ==
    \A n \in Names :
       LET before == get(types, n)
           after == get(types', n)
       IN before # after =>
             /\ Len(log') = Len(log) + 1
             /\ \/ /\ before = None
                   /\ LastCall.op = "register" /\ LastCall.name = n
                   /\ LastCall.out = "ok" /\ LastCall.cls = after
                \/ /\ before # None /\ after # None
                   /\ LastCall.op = "register" /\ LastCall.name = n
                   /\ LastCall.out = "ok" /\ LastCall.cls = after
                   /\ LastCall.allow_override
                \/ /\ before # None /\ after = None
                   /\ \/ LastCall.op = "unregister" /\ LastCall.name = n
                      \/ LastCall.op = "clear"

\* C4: after any sequence of register, unregister and clear calls every name
\* is unbound or bound to one constructor, that of the most recent
\* successful register of the name not followed by unregister(name) or
\* clear(); bindings change only by unbound -> bound (register), bound ->
\* bound (allowed override), bound -> unbound (unregister, clear); and
\* is_registered, get and list_types agree in every reachable state.
C4_KeyStateMachine == [][BindingsFollowLog' /\ KeyTransition]_vars

\* C4's case: a name bound, overridden, then unbound again.
C4_Witness ==
    /\ Len(log) = 3
    /\ log[1].op = "register" /\ log[1].out = "ok" /\ log[1].name = "x"
    /\ log[2].op = "register" /\ log[2].out = "ok" /\ log[2].name = "x"
    /\ log[2].cls # log[1].cls
    /\ log[3].op \in {"unregister", "clear"} /\ log[3].name \in {"x", ""}
    /\ ~is_registered(types, "x")
    /\ get(types, "x") = None

----------------------------------------------------------------------------
(* Claims about GlobalRegistry, concurrent callers *)

\* The calls of threads a then b, one after the other from types0, give the
\* results the threads got and the registry they left.
SerialOrder(a, b) ==
    LET r1 == Serial(frame[a], types0)
        r2 == Serial(frame[b], r1.types)
    IN /\ r1.out = frame[a].out
       /\ r2.out = frame[b].out
       /\ r2.types = types

\* C5: the registry calls of concurrent threads behave as some serial order
\* of the calls; in particular two concurrent register calls with different
\* constructors for one unbound name and allow_override = false never both
\* succeed.
C5_Serializable ==
    (\A t \in Threads : pc[t] = "done") =>
       /\ \E a, b \in Threads : a # b /\ SerialOrder(a, b)
       /\ \A a, b \in Threads :
             (/\ a # b
              /\ frame[a].op = "register" /\ frame[b].op = "register"
              /\ frame[a].name = frame[b].name
              /\ frame[a].name \notin DOMAIN types0
              /\ frame[a].cls # frame[b].cls
              /\ ~frame[a].allow_override /\ ~frame[b].allow_override)
             => ~(frame[a].out = "ok" /\ frame[b].out = "ok")

----------------------------------------------------------------------------
(* Claims about RID.generate and RID.components *)

\* The effective component of a generate call: the argument, or the default.
Effective(arg, default) == IF arg.given /\ arg.s # <<>> THEN arg.s ELSE default

\* A locator as generate_ulid returns it: 26 Crockford base32 characters.
IsLocator(l) == Len(l) = 26 /\ \A k \in 1..26 : l[k] \in CrockfordChars

\* s ends with a fresh locator, and before it is `head` and a dot.
EndsWithLocator(s, head) ==
    /\ Len(s) = Len(head) + 27
    /\ SubSeq(s, 1, Len(head)) = head
    /\ s[Len(head) + 1] = "."
    /\ IsLocator(SubSeq(s, Len(head) + 2, Len(s)))

\* generate was called with neither service, instance nor locator, and a
\* type (given or "resource") that passes TypeStr.
DefaultsCall ==
    /\ call.op = "generate"
    /\ ~call.service.given /\ ~call.instance.given /\ ~call.locator.given
    /\ Passes("TypeStr", Effective(call.type_, S_resource))

\* The RID is the five segments prefix, default service, default instance,
\* type and a locator.
DefaultsResult ==
    /\ ret.kind = "ok"
    /\ EndsWithLocator(ret.value,
          Join(<<RID_PREFIX, DEFAULT_SERVICE, DEFAULT_INSTANCE,
                 Effective(call.type_, S_resource)>>))

\* C8 as stated: generate with no service and no instance returns, for every
\* valid type and whatever the settings hold at the call, exactly five
\* segments: RID_PREFIX, DEFAULT_SERVICE, DEFAULT_INSTANCE, the type
\* ("resource" when omitted) and a 26-character locator.
C8_DefaultsAnySettings ==
    DefaultsCall =>
       /\ DefaultsResult
       /\ Len(Split(ret.value)) = 5
       /\ SubSeq(Split(ret.value), 1, 4) =
             <<RID_PREFIX, DEFAULT_SERVICE, DEFAULT_INSTANCE,
               Effective(call.type_, S_resource)>>

\* C8 amended: when the settings' DEFAULT_SERVICE and DEFAULT_INSTANCE pass
\* ServiceStr and InstanceStr at the call, generate with no service and no
\* instance returns RID_PREFIX.DEFAULT_SERVICE.DEFAULT_INSTANCE.type.locator
\* with the values the settings hold at the call, and that string has
\* exactly five segments when RID_PREFIX holds no dot.
C8_Defaults ==
    (/\ DefaultsCall
     /\ Passes("ServiceStr", DEFAULT_SERVICE)
     /\ Passes("InstanceStr", DEFAULT_INSTANCE)) =>
       /\ DefaultsResult
       /\ NumDots(RID_PREFIX) = 0 =>
             /\ Len(Split(ret.value)) = 5
             /\ SubSeq(Split(ret.value), 1, 4) =
                   <<RID_PREFIX, DEFAULT_SERVICE, DEFAULT_INSTANCE,
                     Effective(call.type_, S_resource)>>

\* C8's case: defaults changed after construction, then used by generate.
C8_Witness ==
    /\ DefaultsCall
    /\ call.type_ = Given(S_widget)
    /\ DEFAULT_SERVICE = S_new
    /\ DEFAULT_INSTANCE = S_main
    /\ ret.kind = "ok"
    /\ Split(ret.value)[2] = S_new
    /\ Split(ret.value)[3] = S_main

\* The outcomes of ServiceStr, InstanceStr and TypeStr on the effective
\* components of the generate call c, as the settings stand.
BeforeLocator(c) ==
    { ComponentValidate("ServiceStr", Effective(c.service, DEFAULT_SERVICE),
          compiled_patterns_cache).out,
      ComponentValidate("InstanceStr", Effective(c.instance, DEFAULT_INSTANCE),
          compiled_patterns_cache).out,
      ComponentValidate("TypeStr", Effective(c.type_, S_resource),
          compiled_patterns_cache).out }

\* The outcome of LocatorStr on the locator supplied to c, if any.
OfLocator(c) ==
    IF c.locator.given
    THEN {ComponentValidate("LocatorStr", c.locator.s,
              compiled_patterns_cache).out}
    ELSE {}

Failures(outs) == {o \in outs : o.kind # "ok"}

\* A generate step with a failing component raises such a failure; one whose
\* service, instance or type fails leaves the thread's last ULID alone.
GenerateAborts ==
    (call'.op = "generate" /\ <<call', ret', last_ulid'>> # <<call, ret, last_ulid>>)
    => LET early == Failures(BeforeLocator(call'))
       IN IF early # {}
          THEN /\ ret' \in early
               /\ last_ulid' = last_ulid
          ELSE Failures(OfLocator(call')) # {} =>
                  ret' \in Failures(OfLocator(call'))

\* C9: when the effective service, instance or type, or a supplied locator,
\* fails its validator, RID.generate raises that validation error and returns
\* no RID; when the failure is in service, instance or type no locator was
\* generated and the calling thread's last-locator state is unchanged.
C9_GenerateAborts == [][GenerateAborts]_vars

\* C9's case: a generate that made a locator, then one whose type fails.
C9_Witness ==
    /\ call.op = "generate"
    /\ call.type_ = Given(S_T)
    /\ ~call.locator.given
    /\ ret.kind = "ValueError"
    /\ last_ulid[MainThread] # NoUlid

\* C10: for a string of exactly five dot-separated parts components() returns
\* the parts under prefix, service, instance, type, locator in that order, so
\* that joining the five values with '.' gives the string back; for any other
\* number of parts it raises and returns no map.
C10_ComponentsRoundTrip ==
    call.op = "components" =>
       IF NumDots(call.arg) = 4
       THEN /\ ret.kind = "ok"
            /\ Join(<<ret.value.prefix, ret.value.service, ret.value.instance,
                      ret.value.type, ret.value.locator>>) = call.arg
            /\ \A f \in {"prefix", "service", "instance", "type", "locator"} :
                  NumDots(ret.value[f]) = 0
       ELSE ret.kind = "ValueError"

\* C10's case: components of a five-part string, named in order.
C10_Witness ==
    /\ call.op = "components"
    /\ NumDots(call.arg) = 4
    /\ ret.kind = "ok"
    /\ ret.value.prefix = S_ri
    /\ ret.value.service = S_svc
    /\ ret.value.locator = L_zeros

----------------------------------------------------------------------------
(* Claims about the component validators *)

\* The whole of value, from its first character to its last, matches the
\* pattern the settings hold for cls.
MatchesEntirely(cls, value) ==
    LET ps == get_pattern_string(PatternNameOf(cls)) IN
    ps.found /\ ps.str # PAT_EMPTY /\ FullMatch(RegexOf(ps.str), value)

\* What the three checks, applied in order, give for a component value.
ThreeChecks(cls, isStr, value) ==
    IF ~isStr THEN Raised("TypeError", "must be a string")
    ELSE IF ~MatchesEntirely(cls, value)
    THEN Raised("ValueError", "does not match pattern")
    ELSE IF Lower(value) \in get_reserved_words(cls)
    THEN Raised("ValueError", "is a reserved word")
    ELSE Returned(value)

\* C11: a component validator raises the type error for a value that is no
\* string; else the pattern-mismatch error unless the entire value matches
\* the component's pattern; else the reserved-word error if the lower-cased
\* value is in the effective reserved-word set; else it returns the value
\* unchanged.
C11_ThreeChecksInOrder ==
    call.op = "validate_component" =>
       ret = ThreeChecks(call.cls, call.isStr, call.arg)

\* The type names that are never reserved.
TypeAllowList ==
    { S_resource, <<"o","b","j","e","c","t">>, <<"l","i","n","k">>,
      <<"a","c","t","i","o","n">>, <<"q","u","e","r","y">>,
      <<"p","r","o","p","e","r","t","y","-","t","y","p","e">>,
      <<"o","b","j","e","c","t","-","t","y","p","e">> }

\* The value is one its class exempts from the reserved words.
Exempt(cls, value) ==
    \/ cls = "ServiceStr" /\ value = DEFAULT_SERVICE
    \/ cls = "InstanceStr" /\ value = DEFAULT_INSTANCE
    \/ cls = "TypeStr" /\ value \in TypeAllowList

RejectedAsReserved == ret.kind = "ValueError" /\ ret.err = "is a reserved word"

\* C12: whatever RESERVED_WORDS, DEFAULT_SERVICE and DEFAULT_INSTANCE have
\* been set to, ServiceStr does not reject the current DEFAULT_SERVICE as
\* reserved, nor InstanceStr the current DEFAULT_INSTANCE, nor TypeStr a name
\* of its allow-list; every other value that matches its pattern and whose
\* lower-cased form is in RESERVED_WORDS is rejected as reserved.
C12_EffectiveReservedWords ==
    (call.op = "validate_component" /\ call.isStr) =>
       /\ Exempt(call.cls, call.arg) => ~RejectedAsReserved
       /\ (/\ ~Exempt(call.cls, call.arg)
           /\ PatternMatch(get_pattern_string(PatternNameOf(call.cls)).str,
                           call.arg)
           /\ Lower(call.arg) \in reserved_words) => RejectedAsReserved

\* C12's case: the default service is a reserved word and ServiceStr takes it.
C12_Witness ==
    /\ call.op = "validate_component"
    /\ call.cls = "ServiceStr"
    /\ call.arg = DEFAULT_SERVICE
    /\ DEFAULT_SERVICE = S_new
    /\ S_new \in reserved_words
    /\ ret = Returned(S_new)

----------------------------------------------------------------------------
(* Claims about the patterns of the settings *)

\* The text stored for a pattern name, and what get_compiled_pattern(name)
\* would return, in a state.
StoredPattern(name) == get_pattern_string(name)
CompiledNow(name) == get_compiled_pattern(compiled_patterns_cache, name)

\* A set_pattern(name, text) step: a text that does not compile or a name that
\* is no pattern name raises and changes neither the texts nor the cache; else
\* the text is stored and get_compiled_pattern(name) gives its compilation.
SetPatternEffect(name, text) ==
    IF ~Compiles(text) \/ ~StoredPattern(name).found
    THEN /\ ret'.kind = "ValueError"
         /\ patterns' = patterns
         /\ compiled_patterns_cache' = compiled_patterns_cache
    ELSE /\ ret'.kind = "ok"
         /\ StoredPattern(name)' = [found |-> TRUE, str |-> text]
         /\ CompiledNow(name)'.found
         /\ CompiledNow(name)'.pattern = text

\* C13: set_pattern(name, pattern_string) raises and leaves the stored
\* pattern string and the compiled-pattern cache unchanged when the string
\* does not compile or the name is unknown; when it compiles, the string is
\* stored for name and the next get_compiled_pattern(name) returns a pattern
\* compiled from it, never the one cached before.
C13_SetPattern ==
    [][\A n \in PatternNames, t \in PatternTexts :
          (/\ call' = [op |-> "set_pattern", name |-> n, pattern_string |-> t]
           /\ <<call', ret', patterns', compiled_patterns_cache'>>
                 # <<call, ret, patterns, compiled_patterns_cache>>)
          => SetPatternEffect(n, t)]_vars

\* part matches the pattern the settings now hold under name (the empty
\* pattern matches every string).
MatchesCurrent(name, part) ==
    LET ps == get_pattern_string(name) IN
    /\ ps.found
    /\ ps.str = PAT_EMPTY \/ PatternMatch(ps.str, part)

\* v is five dot-separated parts: the prefix, then four parts that match the
\* current component patterns.
PartsAgree(v) ==
    LET parts == Split(v) IN
    /\ Len(parts) = 5
    /\ parts[1] = RID_PREFIX
    /\ MatchesCurrent("SERVICE", parts[2])
    /\ MatchesCurrent("INSTANCE", parts[3])
    /\ MatchesCurrent("TYPE", parts[4])
    /\ MatchesCurrent("LOCATOR", parts[5])

\* C14: in every settings state, pattern overrides and a changed RID_PREFIX
\* included, the whole-RID pattern test of RID.validate accepts a string
\* exactly when the string splits into five parts, the first being
\* RID_PREFIX and the other four matching their current component patterns.
C14_WholeAndComponentPatternsAgree ==
    (call.op = "validate" /\ call.isStr) =>
       ((ret.err # "Invalid RID format") <=> PartsAgree(call.arg))

\* A type name of 2 to 50 characters, a lowercase letter first, then
\* lowercase letters and hyphens.
WellFormedType(v) ==
    /\ Len(v) >= 2 /\ Len(v) <= 50
    /\ v[1] \in LowerChars
    /\ \A k \in 2..Len(v) : v[k] \in LowerChars \cup {"-"}

\* C15: under the built-in patterns TypeStr.validate accepts a type name only
\* if it has 2 to 50 characters, starts with a lowercase letter and holds
\* only lowercase letters and hyphens; the one-character type 't' is
\* rejected with the pattern-mismatch error.
C15_TypeLength ==
    (/\ call.op = "validate_component" /\ call.cls = "TypeStr" /\ call.isStr
     /\ patterns = InitPatterns) =>
       /\ ret.kind = "ok" => WellFormedType(call.arg)
       /\ call.arg = S_t => ret = Raised("ValueError", "does not match pattern")

----------------------------------------------------------------------------
(* Claims about the strings generate_ulid returns *)

\* LocatorStr.validate accepts the string v under the current settings.
LocatorAccepts(v) ==
    ComponentValidate("LocatorStr", v, compiled_patterns_cache).out =
        Returned(v)

OwnLastValue(t) ==
    IF issued[t] = <<>>
    THEN last_ulid[t] = NoUlid
    ELSE /\ last_ulid[t] # NoUlid
         /\ UlidStr(last_ulid[t]) = issued[t][Len(issued[t])]

\* A call on thread t leaves the last value and the results of every other
\* thread as they were.
OthersUntouched(t) ==
    \A u \in Threads \ {t} :
       /\ last_ulid'[u] = last_ulid[u]
       /\ issued'[u] = issued[u]

\* C17: generate_ulid keeps its last value per thread.  A call on one thread
\* never changes the last value of another thread, each thread's last value
\* is always the one its own latest call stored, and no call waits for
\* another thread: a thread that has calls left can always make one.
C17_ThreadLocal ==
    [][/\ \A t \in Threads : issued'[t] # issued[t] => OthersUntouched(t)
       /\ \A t \in Threads : OwnLastValue(t)'
       /\ \A t \in Threads :
             Len(issued[t]) < MaxIssued => ENABLED GenerateUlid(t)]_vars

\* The two threads hold different last values, thread t1 after two calls.
C17_Witness ==
    /\ \A t \in Threads : last_ulid[t] # NoUlid
    /\ last_ulid["t1"] # last_ulid["t2"]
    /\ Len(issued["t1"]) >= 2

----------------------------------------------------------------------------
(* Claims about the lookups and removals of GlobalRegistry *)

\* Every name but `name` is bound after the step as it was before.
OtherNamesKept(name) ==
    \A n \in Names \ {name} : get(types', n) = get(types, n)

\* What one unregister step returns and does to the bindings.
UnregisterEffect ==
    (Len(log') = Len(log) + 1 /\ LastCall.op = "unregister") =>
       LET name == LastCall.name IN
       /\ is_registered(types, name) => LastCall.out = types[name]
       /\ ~is_registered(types, name) => LastCall.out = None
       /\ ~is_registered(types', name)
       /\ OtherNamesKept(name)
       /\ (/\ log # <<>>
           /\ log[Len(log)].op = "unregister"
           /\ log[Len(log)].name = name) => LastCall.out = None

\* C18: unregister(name) on a bound name returns the bound constructor and
\* unbinds the name; on an unbound name it returns nothing and raises
\* nothing; it leaves every other name as it was; and the second of two
\* unregister(name) calls in a row returns nothing.
C18_Unregister == [][UnregisterEffect]_vars

\* A bound name unregistered twice in a row: the first call returned its
\* constructor, the second nothing, and the name is unbound.
C18_Witness ==
    \E k \in 2..Len(log) :
       /\ log[k - 1].op = "unregister" /\ log[k].op = "unregister"
       /\ log[k - 1].name = log[k].name
       /\ log[k - 1].out \in Ctors
       /\ log[k].out = None
       /\ ~is_registered(types, log[k].name)

\* The names of the model that a list of pieces holds.
NamesListed(pieces) ==
    {n \in Names : \E k \in 1..Len(pieces) : pieces[k] = n}

\* The pieces equal to the name n.
TimesListed(pieces, n) ==
    Cardinality({k \in 1..Len(pieces) : pieces[k] = n})

\* What one get or get_or_error step returns and does to the bindings.
LookupEffect ==
    /\ (Len(log') = Len(log) + 1 /\ LastCall.op = "get") =>
          /\ types' = types
          /\ is_registered(types, LastCall.name) =>
                LastCall.out = types[LastCall.name]
          /\ ~is_registered(types, LastCall.name) => LastCall.out = None
    /\ (Len(log') = Len(log) + 1 /\ LastCall.op = "get_or_error") =>
          /\ types' = types
          /\ is_registered(types, LastCall.name) =>
                LastCall.out = types[LastCall.name]
          /\ ~is_registered(types, LastCall.name) =>
                /\ LastCall.out = "KeyError: not found"
                /\ LastCall.message.name = LastCall.name
                /\ NamesListed(LastCall.message.available) = list_types(types)
                /\ \A n \in list_types(types) :
                      TimesListed(LastCall.message.available, n) = 1
                /\ list_types(types) = {} => LastCall.message.available = <<>>

\* C19: get_or_error(name) returns the constructor bound to name; for an
\* unbound name it raises the not-found error, whose message lists exactly
\* the names registered at the moment of the call, each once, and nothing
\* when none is registered; get(name) on an unbound name returns None and
\* raises nothing; neither lookup changes a binding.
C19_Lookups == [][LookupEffect]_vars

\* A get_or_error of an unbound name with two names registered, both in the
\* message.
C19_Witness ==
    /\ Len(log) = 3
    /\ log[3].op = "get_or_error"
    /\ log[3].out = "KeyError: not found"
    /\ list_types(types) = {"x", "y"}
    /\ NamesListed(log[3].message.available) = {"x", "y"}

\* The parts of C20 that do not depend on how a failure reaches the caller:
\* an unbound name raises not-found and no constructor runs; a bound name
\* has exactly its constructor invoked with the fields, and what the
\* constructor returns is returned; the bindings stay as they were.
CreateInstanceResolves(e) ==
    /\ types' = types
    /\ ~is_registered(types, e.name) =>
          /\ e.out.kind = "KeyError: not found"
          /\ e.invoked = None
    /\ is_registered(types, e.name) =>
          /\ e.invoked = types[e.name]
          /\ e.out.cls = types[e.name]
          /\ e.out.fields = e.fields
          /\ e.behaviour = "instance" => e.out.kind = "instance"
          /\ e.behaviour # "instance" => e.out.kind \notin {"instance", "None"}

\* C20 as stated: create_instance(name, fields) with any fields; a
\* constructor failure reaches the caller wrapped in an error that carries
\* the type name and the original cause.
C20_CreateInstanceWrapped ==
    [][(Len(log') = Len(log) + 1 /\ LastCall.op = "create_instance") =>
          /\ CreateInstanceResolves(LastCall)
          /\ (LastCall.invoked # None /\ LastCall.behaviour # "instance") =>
                /\ LastCall.out.type_name = LastCall.name
                /\ LastCall.out.cls = LastCall.invoked]_vars

\* C20 amended: a call that passes a field named type_name or self raises
\* TypeError before any lookup and invokes nothing.  Any other call: an
\* unbound name raises not-found and no constructor runs; a bound name has
\* exactly its constructor invoked with the fields and its result returned;
\* a constructor failure reaches the caller as the constructor raised it,
\* not wrapped, after logger.error wrote the type name and the cause when it
\* is an Exception; it is never swallowed or replaced by a default value.
\* The bindings are unchanged in every case.
C20_CreateInstance ==
    [][(Len(log') = Len(log) + 1 /\ LastCall.op = "create_instance") =>
          IF LastCall.fields \cap {"type_name", "self"} # {}
          THEN /\ types' = types
               /\ LastCall.out.kind = "TypeError"
               /\ LastCall.invoked = None
               /\ LastCall.logged = <<>>
          ELSE /\ CreateInstanceResolves(LastCall)
               /\ LastCall.out.type_name = ""
               /\ LastCall.out.kind = LastCall.behaviour
                     \/ LastCall.invoked = None
               /\ LastCall.logged =
                     IF LastCall.invoked # None /\ LastCall.behaviour = "Exception"
                     THEN <<[type_name |-> LastCall.name,
                             cause |-> LastCall.invoked]>>
                     ELSE <<>>]_vars

\* A constructor that returned an instance on one call and raised on the
\* next, the failure logged and passed on.
C20_Witness ==
    \E k \in 2..Len(log) :
       /\ log[k - 1].op = "create_instance" /\ log[k].op = "create_instance"
       /\ log[k - 1].out.kind = "instance"
       /\ log[k].out.kind = "Exception"
       /\ log[k].invoked = log[k - 1].invoked
       /\ log[k].logged # <<>>

----------------------------------------------------------------------------
(* Claims about class definition *)

\* C21: defining a subclass that carries a non-empty __resource_type__ binds
\* the type name to the new class with the duplicate-name policy of
\* register: an unbound name, or one bound to the same class, is bound to
\* the class afterwards; a name bound to a different class logs a 'Failed to
\* auto-register' warning, raises nothing and keeps the first binding; a
\* class without a type name is not registered.
C21_AutoRegistration ==
    [][(Len(log') = Len(log) + 1 /\ LastCall.op = "define_subclass") =>
          LET name == LastCall.name
              cls == LastCall.cls
          IN /\ name = "" => types' = types
             /\ (name # "" /\ get(types, name) \in {None, cls}) =>
                   /\ LastCall.out = "ok"
                   /\ get(types', name) = cls
                   /\ OtherNamesKept(name)
             /\ (name # "" /\ get(types, name) \notin {None, cls}) =>
                   /\ LastCall.out = "ok"
                   /\ LastCall.warnings = <<"Failed to auto-register">>
                   /\ types' = types]_vars

----------------------------------------------------------------------------
(* Claims about the Resource entity *)

\* The five identity fields hold what construction left in them.
IdentityKept ==
    resource # NoResource =>
       \A f \in immutable_fields : resource[f] = created[f]

\* What one assignment r.name = value does.
AssignmentEffect ==
    (call'.op = "setattr" /\ resource # NoResource) =>
       LET name == call'.name
           value == call'.value
       IN /\ (name \in immutable_fields /\ value # resource[name]) =>
                /\ ret' = Raised("AttributeError", "Cannot modify immutable field")
                /\ resource' = resource
          /\ (name \in immutable_fields /\ value = resource[name]) =>
                /\ ret'.kind = "ok"
                /\ resource' = resource
          /\ name \notin immutable_fields =>
                /\ ret'.kind = "ok"
                /\ resource' = [resource EXCEPT ![name] = value]

\* C22: after a Resource has been constructed, whatever is assigned to its
\* attributes, id, rid, service, instance and resource_type keep the values
\* they had at the end of construction; assigning a different value to one
\* of the five raises AttributeError and changes nothing; assigning the
\* value already held is permitted and changes nothing; meta_tags is freely
\* assignable.
C22_IdentityImmutable == [][AssignmentEffect /\ IdentityKept']_vars

\* A refused assignment to service after meta_tags was changed: the identity
\* fields are those of construction.
C22_Witness ==
    /\ call.op = "setattr" /\ call.name = "service"
    /\ ret.kind = "AttributeError"
    /\ resource.meta_tags # created.meta_tags
    /\ resource.service = created.service

\* The rid that the object's own field values compose.
OwnRid(obj) ==
    Join(<<RID_PREFIX, obj.service, obj.instance, obj.resource_type, obj.id>>)

\* A field supplied together with the rid differs from the rid's component.
SuppliedMismatch(data) ==
    LET parts == Split(data.rid.s) IN
    /\ data.rid.given
    /\ Len(parts) = 5
    /\ \/ data.service.given /\ data.service.s # parts[2]
       \/ data.instance.given /\ data.instance.s # parts[3]
       \/ data.resource_type.given /\ data.resource_type.s # parts[4]
       \/ data.id.given /\ data.id.s # parts[5]

\* C23: a Resource constructed with an explicit rid together with explicit
\* id, service, instance or resource_type fails when a supplied field
\* differs from the rid's component; fields not supplied are filled from
\* the rid; so every Resource constructed from a rid has
\* rid = prefix.service.instance.resource_type.id for its own fields.
C23_ConsistentWithRid ==
    (call.op = "Resource" /\ call.data.rid.given) =>
       /\ SuppliedMismatch(call.data) => ret.kind # "ok"
       /\ ret.kind = "ok" => resource.rid = OwnRid(resource)

\* C24: a Resource constructed without a rid, whatever subset of id,
\* service, instance and resource_type is supplied, takes a freshly
\* generated locator for a missing id, settings.DEFAULT_SERVICE for a
\* missing service, settings.DEFAULT_INSTANCE for a missing instance and
\* 'resource' for a missing resource_type, and its rid splits into exactly
\* the 5 parts (settings.RID_PREFIX, service, instance, resource_type, id).
C24_GeneratedRid ==
    (call.op = "Resource" /\ ~call.data.rid.given /\ ret.kind = "ok") =>
       /\ resource.service = supplied_or(call.data.service, DEFAULT_SERVICE)
       /\ resource.instance = supplied_or(call.data.instance, DEFAULT_INSTANCE)
       /\ resource.resource_type = supplied_or(call.data.resource_type, S_resource)
       /\ call.data.id.given => resource.id = call.data.id.s
       /\ ~call.data.id.given =>
             /\ issued[MainThread] # <<>>
             /\ resource.id = issued[MainThread][Len(issued[MainThread])]
             /\ IsLocator(resource.id)
       /\ Split(resource.rid) =
             <<RID_PREFIX, resource.service, resource.instance,
               resource.resource_type, resource.id>>

----------------------------------------------------------------------------
(* Claims about the initialization of the settings *)

\* Every pattern string the settings hold compiles.
AllPatternsCompile == \A n \in DOMAIN patterns : Compiles(patterns[n])

\* C25: Settings() starts from the built-in patterns; an override read from
\* the environment (a value that is set and not empty) replaces the pattern
\* of its own name if it compiles, and makes the initialization fail with
\* ValueError if it does not; every other pattern is the built-in one; and
\* the pattern strings of the settings compile at all times, also after
\* set_pattern calls.
C25_InitValidatesOverrides ==
    /\ AllPatternsCompile
    /\ call.op = "Settings" =>
          IF \E n \in DOMAIN call.env :
                call.env[n] # "" /\ ~Compiles(call.env[n])
          THEN ret.kind = "ValueError"
          ELSE /\ ret.kind = "ok"
               /\ \A n \in DOMAIN patterns :
                     patterns[n] = IF n \in DOMAIN call.env /\ call.env[n] # ""
                                   THEN call.env[n]
                                   ELSE InitPatterns[n]

\* A Settings object created with a compiling override for the type pattern
\* alone: the service pattern is the built-in one.
C25_Witness ==
    /\ call.op = "Settings" /\ ret.kind = "ok"
    /\ DOMAIN call.env = {"type"}
    /\ patterns.type = PAT_TYPE_STRICT
    /\ patterns.service = PAT_SERVICE

\* C27: after any sequence of get_compiled_pattern and set_pattern calls,
\* with names in either letter case, every entry of the compiled-pattern
\* cache is the compilation of the pattern string get_pattern_string now
\* returns for the entry's key, and a lookup that returns a pattern returns
\* the compilation of the current string.
C27_CacheCoherent ==
    /\ \A n \in DOMAIN compiled_patterns_cache :
          /\ get_pattern_string(n).found
          /\ compiled_patterns_cache[n] = get_pattern_string(n).str
    /\ (call.op = "get_compiled_pattern" /\ ret.kind = "ok") =>
          ret.value = get_pattern_string(call.name).str

----------------------------------------------------------------------------
(* Claims about the metrics collector *)

\* No increment call is running.
Quiet == \A t \in Threads : mpc[t] = "idle"

\* The increments called on the (name, tag set) pairs that render to key k.
AskedOfKey(k) ==
    SumOver(requested, {p \in DOMAIN requested : make_key(p[1], Tags(p[2])) = k})

\* Every counter holds the sum of the increments made on its key.
NoIncrementLost ==
    Quiet => \A k \in DOMAIN counters : counters[k] = AskedOfKey(k)

\* The counter of a name and a tag set holds the increments called with that
\* name and that tag set, and no others.
TagSetsIndependent ==
    Quiet => \A p \in DOMAIN requested :
                get_counter(counters, p[1], Tags(p[2])).value = requested[p]

\* C26: when threads call increment concurrently no increment is lost: once
\* they have finished, get_counter gives the sum of the increments called,
\* and counters of one name with different tag sets are independent.
C26_CountersThreadSafe == NoIncrementLost /\ TagSetsIndependent

----------------------------------------------------------------------------
(* Claims about the reserved-word set *)

\* No set the caller holds is the set the settings store.
NoHeldIsStored == \A i \in 1..Len(held) : ~held[i].is_stored

\* A step that changes the stored reserved words is an assignment to
\* settings.RESERVED_WORDS.
StoredChangesBySetter ==
    reserved_words' # reserved_words => call'.op = "set_reserved_words"

\* A validation rejects a value as reserved by the reserved words stored,
\* whatever the sets the caller holds contain.
ValidationUsesStored ==
    call'.op = "validate_component" =>
       ret' = (ThreeChecks(call.cls, call.isStr, call.arg))'

\* C28: the set settings.RESERVED_WORDS returns is a copy, and the setter
\* stores a copy of the set passed to it: adding to or removing from either
\* set leaves the stored reserved words, and so the validations that follow,
\* as they were; the stored set changes only through the setter.
C28_ReservedWordsIsolated ==
    [][StoredChangesBySetter /\ NoHeldIsStored' /\ ValidationUsesStored]_vars

\* C28 witness: a set was read, changed and assigned, and is changed again
\* afterwards, so that it differs from the reserved words stored.
C28_Witness ==
    /\ call.op = "mutate_held"
    /\ reserved_words # InitReservedWords
    /\ held[call.index].words # reserved_words

----------------------------------------------------------------------------
(* Claims about api_name validation *)

\* C29: every reserved word is itself rejected: validate_string raises the
\* reserved-word error for every member of the reserved words it is given
\* that matches the pattern it is given; so for every member of the
\* module-level RESERVED_WORDS validated as an api_name, 'primaryKey',
\* 'typeId' and 'resourceObject' included.
C29_ReservedWordsRejected ==
    (/\ call.op = "validate_api_name"
     /\ call.v \in RESERVED_WORDS
     /\ PatternMatch(api_name_pattern(api_name_resource_type(call.rid,
                                                             call.resource_type)),
                     call.v))
       => RejectedAsReserved

----------------------------------------------------------------------------
(* Claims about the defaults of RID.generate *)

\* The component passed is the one in the rid returned, or the call raised.
SuppliedKept(arg, position) ==
    arg.given => \/ ret.kind # "ok"
                 \/ Split(ret.value)[position] = arg.s

\* C30: RID.generate never replaces a component it is given: for every
\* string passed as service (as instance) it returns a rid whose service
\* (instance) part is that string, or raises a validation error; the default
\* is used only when the argument is omitted, and an empty string is rejected.
C30_SuppliedNeverReplaced ==
    call.op = "generate" =>
       /\ SuppliedKept(call.service, 2)
       /\ SuppliedKept(call.instance, 3)

====
